---- MODULE Spec2Model ----
(***************************************************************************)
(* easygh: the concurrent batch dispatcher (cmd/easygh/main.go), the       *)
(* GitHub client operations it calls (internal/github) and the sealed-box  *)
(* encryption routine (internal/github/secrets.go).                        *)
(***************************************************************************)
EXTENDS Integers, Sequences, FiniteSets, TLC

(***************************************************************************)
(* Bounds of the model.                                                    *)
(***************************************************************************)
\* longest cfg.GitHub.Repos list explored (one goroutine per entry)
MaxRepos == 2
\* client operations of one run in which the environment injects a fault
\* (an error response, an undecodable key, a failing rand.Reader)
MaxFaults == 1
\* most units of work of one run: repo list entries times catalog entries
MaxWork == 4
\* longest plaintext handed to encryptSecret in the encryption specification
MaxPlainLen == 3
\* most characters of a secret value handed to maskSecret
MaxSecretChars == 5
\* longest text handed to ParseRepos, in pieces
MaxTextLen == 4
\* number of consecutive runs against the same remote store
MaxRuns == 2

(***************************************************************************)
(* Program constants.                                                      *)
(***************************************************************************)
\* size of a curve25519 public key: `var publicKeyBytes [32]byte`
KeySize == 32
\* blake2b.New(24, nil): the nonce size
NonceSize == 24
\* box.Overhead: the Poly1305 tag box.Seal prepends to the ciphertext
Overhead == 16
\* StatusNotFound
StatusNotFound == 404
\* blake2b.Sum512: the size of the full digest
Size512 == 64

VARIABLES
    cfg,          \* *config.Config after LoadConfig, ApplyOverrides, Validate
    flags,        \* cli.Flags: DryRun, ContinueOnError
    ctxCancelled, \* ctx.Err() != nil for the context of execute
    errorMutex,   \* 0 when free, else the goroutine holding errorMutex
    errors,       \* execute's shared `errors` slice
    pc,           \* position of each goroutine
    cur,          \* unit a goroutine is processing (past its checkpoint)
    repoErrors,   \* processRepository's local `errors` slice, per goroutine
    trace,        \* per goroutine: the result lines it has logged, in order
    calls,        \* remote API calls issued so far, per endpoint
    faults,       \* faults injected so far
    phase,        \* "running" until wg.Wait() has returned and execute reported
    retErr,       \* the error execute returns
    opName,       \* client specification: the function called ("" before)
    opArgs,       \* client specification: its arguments and inputs
    opRes,        \* client specification: what it returned and did
    opReq,        \* client specification: the requests it sent to the remote
    store,        \* the remote store, where the remote answers by its content
    runs          \* the runs made against the store, the current one included

vars == <<cfg, flags, ctxCancelled, errorMutex, errors, pc, cur, repoErrors,
          trace, calls, faults, phase, retErr, opName, opArgs, opRes, opReq,
          store, runs>>

dispVars == <<cfg, flags, ctxCancelled, errorMutex, errors, pc, cur,
              repoErrors, trace, calls, faults, phase, retErr>>

opVars == <<opName, opArgs, opRes, opReq>>

storeVars == <<store, runs>>

(***************************************************************************)
(* Byte strings.                                                           *)
(***************************************************************************)
RECURSIVE SumTo(_, _)
SumTo(s, n) == IF n = 0 THEN 0 ELSE s[n] + SumTo(s, n - 1)

SumBytes(s) == SumTo(s, Len(s))

\* the state of a hash after it has absorbed the first n bytes of s: every
\* byte enters it with a weight of its own position
RECURSIVE HashTo(_, _)
HashTo(s, n) == IF n = 0 THEN 7 ELSE (n * n * n + 7 * n) * s[n] + HashTo(s, n - 1)

HashState(s) == HashTo(s, Len(s)) % 65521

\* Go's copy(dst[:], src) into a zeroed [n]byte: truncates or zero-pads
CopyInto(n, src) ==
    [i \in 1..n |-> IF i <= Len(src) THEN src[i] ELSE 0]

(***************************************************************************)
(* Sealed-box encryption: internal/github/secrets.go.                      *)
(* The library primitives are modelled by their interface: sizes of the    *)
(* values they return and what those values depend on.                     *)
(***************************************************************************)
\* box.GenerateKey(rand.Reader); seed 0 stands for a failing rand.Reader
GenerateKey(seed) ==
    IF seed = 0
    THEN [err |-> TRUE, pub |-> <<>>, priv |-> <<>>]
    ELSE LET priv == [i \in 1..KeySize |-> (seed * 31 + i) % 256]
         IN  [err |-> FALSE,
              pub |-> [i \in 1..KeySize |-> (priv[i] * 9 + seed) % 256],
              priv |-> priv]

\* blake2b.New(size, nil); h.Write(input); h.Sum(nil): the digest size is
\* part of the hash's parameter block, so it enters every output byte, as
\* does every input byte with its position
Blake2b(size, input) ==
    LET h == HashState(input) + size * 7919
    IN  [i \in 1..size |->
            LET x == (h + i * 13) % 65521
            IN  IF i % 2 = 1 THEN x % 256 ELSE (x \div 256) % 256]

\* deriveNonce with blake2b.Sum512(nonceInput)[:24] for the 24-byte hash
deriveNonceTruncated512(ephemeralPK, recipientPK) ==
    SubSeq(Blake2b(Size512, CopyInto(KeySize, ephemeralPK) \o CopyInto(KeySize, recipientPK)),
           1, NonceSize)

\* deriveNonce with the two keys copied into nonceInput the other way round
deriveNonceSwapped(ephemeralPK, recipientPK) ==
    CopyInto(NonceSize, Blake2b(NonceSize, CopyInto(KeySize, recipientPK) \o CopyInto(KeySize, ephemeralPK)))

\* nonceInput = ephemeralPK || recipientPK; nonce = BLAKE2b-24(nonceInput)
deriveNonce(ephemeralPK, recipientPK) ==
    CopyInto(NonceSize, Blake2b(NonceSize, CopyInto(KeySize, ephemeralPK) \o CopyInto(KeySize, recipientPK)))

\* box.Seal(nil, message, nonce, peersPublicKey, privateKey):
\* a 16-byte authenticator followed by len(message) bytes of ciphertext
boxSeal(message, nonce, peersPublicKey, privateKey) ==
    LET k == (SumBytes(peersPublicKey) + 3 * SumBytes(privateKey)
                + 5 * SumBytes(nonce)) % 256
        body == [i \in 1..Len(message) |-> (message[i] + k + i) % 256]
        t == k + SumBytes(body)
        tag == [i \in 1..Overhead |-> (t + i) % 256]
    IN  tag \o body

\* encryptSecret with the result buffer sized without the authenticator:
\* `make([]byte, 32+len(plaintext))`, the copy of the ciphertext truncated
encryptSecretNoOverhead(plaintext, publicKey, seed) ==
    LET kp == GenerateKey(seed)
    IN  IF kp.err
        THEN [err |-> "rand", out |-> <<>>, nonce |-> <<>>]
        ELSE LET nonce == deriveNonce(kp.pub, publicKey)
                 encrypted == boxSeal(plaintext, nonce, publicKey, kp.priv)
                 result == [i \in 1..(KeySize + Len(plaintext)) |->
                               IF i <= KeySize THEN kp.pub[i]
                               ELSE encrypted[i - KeySize]]
             IN  [err |-> "nil", out |-> result, nonce |-> nonce]

\* encryptSecret with the ephemeral key pair generated once and kept for
\* the later calls
encryptSecretCachedKey(plaintext, publicKey, seed) ==
    LET kp == GenerateKey(IF seed = 0 THEN 0 ELSE 1)
    IN  IF kp.err
        THEN [err |-> "rand", out |-> <<>>, nonce |-> <<>>]
        ELSE LET nonce == deriveNonce(kp.pub, publicKey)
                 encrypted == boxSeal(plaintext, nonce, publicKey, kp.priv)
                 result == [i \in 1..(KeySize + Len(encrypted)) |->
                               IF i <= KeySize THEN kp.pub[i]
                               ELSE encrypted[i - KeySize]]
             IN  [err |-> "nil", out |-> result, nonce |-> nonce]

\* encryptSecret(plaintext, publicKey): seed is what rand.Reader yields;
\* nonce is the nonce handed to box.Seal (it is not returned)
encryptSecret(plaintext, publicKey, seed) ==
    LET kp == GenerateKey(seed)
    IN  IF kp.err
        THEN [err |-> "rand", out |-> <<>>, nonce |-> <<>>]
        ELSE LET nonce == deriveNonce(kp.pub, publicKey)
                 encrypted == boxSeal(plaintext, nonce, publicKey, kp.priv)
                 result == [i \in 1..(KeySize + Len(encrypted)) |->
                               IF i <= KeySize THEN kp.pub[i]
                               ELSE encrypted[i - KeySize]]
             IN  [err |-> "nil", out |-> result, nonce |-> nonce]

(***************************************************************************)
(* Configuration: internal/config.                                         *)
(***************************************************************************)
EmptyMap == [x \in {} |-> <<>>]

\* Validate without the test of the values of the environment variables
ValidateSkipsEnvironmentVariableValues(c) ==
    IF c.GitHub.Owner = "" THEN "github.owner is required"
    ELSE IF Len(c.GitHub.Repos) = 0 THEN "at least one repository must be specified in github.repos"
    ELSE IF c.GitHub.Token = "" THEN "github.token is required"
    ELSE IF /\ DOMAIN c.RepositorySecrets = {}
            /\ DOMAIN c.EnvironmentSecrets = {}
            /\ DOMAIN c.RepositoryVariables = {}
            /\ DOMAIN c.EnvironmentVariables = {}
         THEN "at least one section must be specified"
    ELSE IF \E i \in 1..Len(c.GitHub.Repos) : c.GitHub.Repos[i] = ""
         THEN "repository name cannot be empty"
    ELSE IF \E k \in DOMAIN c.RepositorySecrets : k = ""
         THEN "repository secret key cannot be empty"
    ELSE IF \E k \in DOMAIN c.RepositorySecrets : c.RepositorySecrets[k] = <<>>
         THEN "repository secret value cannot be empty"
    ELSE IF \E e \in DOMAIN c.EnvironmentSecrets : e = ""
         THEN "environment name cannot be empty"
    ELSE IF \E e \in DOMAIN c.EnvironmentSecrets :
               \E k \in DOMAIN c.EnvironmentSecrets[e] : k = ""
         THEN "environment secret key cannot be empty"
    ELSE IF \E e \in DOMAIN c.EnvironmentSecrets :
               \E k \in DOMAIN c.EnvironmentSecrets[e] : c.EnvironmentSecrets[e][k] = <<>>
         THEN "environment secret value cannot be empty"
    ELSE IF \E k \in DOMAIN c.RepositoryVariables : k = ""
         THEN "repository variable key cannot be empty"
    ELSE IF \E k \in DOMAIN c.RepositoryVariables : c.RepositoryVariables[k] = <<>>
         THEN "repository variable value cannot be empty"
    ELSE IF \E e \in DOMAIN c.EnvironmentVariables : e = ""
         THEN "environment name cannot be empty"
    ELSE IF \E e \in DOMAIN c.EnvironmentVariables :
               \E k \in DOMAIN c.EnvironmentVariables[e] : k = ""
         THEN "environment variable key cannot be empty"
    ELSE "nil"

\* Validate without the rule that one of the four sections is specified
ValidateNoSectionRule(c) ==
    IF c.GitHub.Owner = "" THEN "github.owner is required"
    ELSE IF Len(c.GitHub.Repos) = 0 THEN "at least one repository must be specified in github.repos"
    ELSE IF c.GitHub.Token = "" THEN "github.token is required"
    ELSE IF \E i \in 1..Len(c.GitHub.Repos) : c.GitHub.Repos[i] = ""
         THEN "repository name cannot be empty"
    ELSE IF \E k \in DOMAIN c.RepositorySecrets : k = ""
         THEN "repository secret key cannot be empty"
    ELSE IF \E k \in DOMAIN c.RepositorySecrets : c.RepositorySecrets[k] = <<>>
         THEN "repository secret value cannot be empty"
    ELSE IF \E e \in DOMAIN c.EnvironmentSecrets : e = ""
         THEN "environment name cannot be empty"
    ELSE IF \E e \in DOMAIN c.EnvironmentSecrets :
               \E k \in DOMAIN c.EnvironmentSecrets[e] : k = ""
         THEN "environment secret key cannot be empty"
    ELSE IF \E e \in DOMAIN c.EnvironmentSecrets :
               \E k \in DOMAIN c.EnvironmentSecrets[e] : c.EnvironmentSecrets[e][k] = <<>>
         THEN "environment secret value cannot be empty"
    ELSE IF \E k \in DOMAIN c.RepositoryVariables : k = ""
         THEN "repository variable key cannot be empty"
    ELSE IF \E k \in DOMAIN c.RepositoryVariables : c.RepositoryVariables[k] = <<>>
         THEN "repository variable value cannot be empty"
    ELSE IF \E e \in DOMAIN c.EnvironmentVariables : e = ""
         THEN "environment name cannot be empty"
    ELSE IF \E e \in DOMAIN c.EnvironmentVariables :
               \E k \in DOMAIN c.EnvironmentVariables[e] : k = ""
         THEN "environment variable key cannot be empty"
    ELSE IF \E e \in DOMAIN c.EnvironmentVariables :
               \E k \in DOMAIN c.EnvironmentVariables[e] : c.EnvironmentVariables[e][k] = <<>>
         THEN "environment variable value cannot be empty"
    ELSE "nil"

\* Config.Validate: the first violated rule, or "nil"
Validate(c) ==
    IF c.GitHub.Owner = "" THEN "github.owner is required"
    ELSE IF Len(c.GitHub.Repos) = 0 THEN "at least one repository must be specified in github.repos"
    ELSE IF c.GitHub.Token = "" THEN "github.token is required"
    ELSE IF /\ DOMAIN c.RepositorySecrets = {}
            /\ DOMAIN c.EnvironmentSecrets = {}
            /\ DOMAIN c.RepositoryVariables = {}
            /\ DOMAIN c.EnvironmentVariables = {}
         THEN "at least one section must be specified"
    ELSE IF \E i \in 1..Len(c.GitHub.Repos) : c.GitHub.Repos[i] = ""
         THEN "repository name cannot be empty"
    ELSE IF \E k \in DOMAIN c.RepositorySecrets : k = ""
         THEN "repository secret key cannot be empty"
    ELSE IF \E k \in DOMAIN c.RepositorySecrets : c.RepositorySecrets[k] = <<>>
         THEN "repository secret value cannot be empty"
    ELSE IF \E e \in DOMAIN c.EnvironmentSecrets : e = ""
         THEN "environment name cannot be empty"
    ELSE IF \E e \in DOMAIN c.EnvironmentSecrets :
               \E k \in DOMAIN c.EnvironmentSecrets[e] : k = ""
         THEN "environment secret key cannot be empty"
    ELSE IF \E e \in DOMAIN c.EnvironmentSecrets :
               \E k \in DOMAIN c.EnvironmentSecrets[e] : c.EnvironmentSecrets[e][k] = <<>>
         THEN "environment secret value cannot be empty"
    ELSE IF \E k \in DOMAIN c.RepositoryVariables : k = ""
         THEN "repository variable key cannot be empty"
    ELSE IF \E k \in DOMAIN c.RepositoryVariables : c.RepositoryVariables[k] = <<>>
         THEN "repository variable value cannot be empty"
    ELSE IF \E e \in DOMAIN c.EnvironmentVariables : e = ""
         THEN "environment name cannot be empty"
    ELSE IF \E e \in DOMAIN c.EnvironmentVariables :
               \E k \in DOMAIN c.EnvironmentVariables[e] : k = ""
         THEN "environment variable key cannot be empty"
    ELSE IF \E e \in DOMAIN c.EnvironmentVariables :
               \E k \in DOMAIN c.EnvironmentVariables[e] : c.EnvironmentVariables[e][k] = <<>>
         THEN "environment variable value cannot be empty"
    ELSE "nil"

\* A text (the --repo flag) is a sequence of pieces: the comma, a
\* whitespace character, or a run of other characters.
WhiteSpace == {" ", "\t"}

\* string(pieces)
RECURSIVE Join(_)
Join(pieces) == IF pieces = <<>> THEN "" ELSE Head(pieces) \o Join(Tail(pieces))

\* strings.Split(s, ","), each item as its pieces
RECURSIVE Split(_)
Split(s) ==
    LET commas == {i \in 1..Len(s) : s[i] = ","}
    IN  IF commas = {} THEN <<s>>
        ELSE LET k == CHOOSE i \in commas : \A j \in commas : i <= j
             IN  <<SubSeq(s, 1, k - 1)>> \o Split(SubSeq(s, k + 1, Len(s)))

\* strings.TrimSpace(s)
RECURSIVE TrimSpace(_)
TrimSpace(s) ==
    IF s = <<>> THEN s
    ELSE IF Head(s) \in WhiteSpace THEN TrimSpace(Tail(s))
    ELSE IF s[Len(s)] \in WhiteSpace THEN TrimSpace(SubSeq(s, 1, Len(s) - 1))
    ELSE s

\* the loop of ParseRepos over the items of the split
RECURSIVE AppendTrimmed(_)
AppendTrimmed(items) ==
    IF items = <<>> THEN <<>>
    ELSE LET repo == TrimSpace(Head(items))
         IN  (IF repo # <<>> THEN <<Join(repo)>> ELSE <<>>) \o AppendTrimmed(Tail(items))

\* ParseRepos with the items taken as the split leaves them
ParseReposUntrimmed(reposStr) ==
    IF reposStr = <<>> THEN [isNil |-> TRUE, repos |-> <<>>]
    ELSE [isNil |-> FALSE,
          repos |-> [i \in 1..Len(Split(reposStr)) |-> Join(Split(reposStr)[i])]]

\* cli.ParseRepos(reposStr): isNil tells the nil slice from an empty one
ParseRepos(reposStr) ==
    IF reposStr = <<>> THEN [isNil |-> TRUE, repos |-> <<>>]
    ELSE [isNil |-> FALSE, repos |-> AppendTrimmed(Split(reposStr))]

\* ApplyOverrides with every argument assigned, empty or not
ApplyOverridesUnconditional(c, token, owner, repos) ==
    [c EXCEPT !.GitHub.Token = token, !.GitHub.Owner = owner, !.GitHub.Repos = repos]

\* Config.ApplyOverrides(token, owner, repos)
ApplyOverrides(c, token, owner, repos) ==
    [c EXCEPT !.GitHub.Token = IF token # "" THEN token ELSE @,
              !.GitHub.Owner = IF owner # "" THEN owner ELSE @,
              !.GitHub.Repos = IF Len(repos) > 0 THEN repos ELSE @]

\* the zero Config
ZeroConfig ==
    [GitHub |-> [Token |-> "", Owner |-> "", Repos |-> <<>>],
     RepositorySecrets |-> EmptyMap, EnvironmentSecrets |-> EmptyMap,
     RepositoryVariables |-> EmptyMap, EnvironmentVariables |-> EmptyMap]

\* config.LoadConfig(configPath): file.read is how os.ReadFile and
\* yaml.Unmarshal fare, file.c what the YAML decodes to; envToken is
\* os.Getenv(EnvTokenKey). isNil: the *Config returned is nil.
LoadConfig(file, envToken) ==
    IF file.read = "missing"
    THEN [err |-> "failed to read config file", cause |-> "os", isNil |-> TRUE,
          cfg |-> ZeroConfig]
    ELSE IF file.read = "malformed"
    THEN [err |-> "failed to parse YAML", cause |-> "yaml", isNil |-> TRUE,
          cfg |-> ZeroConfig]
    ELSE LET c == [file.c EXCEPT !.GitHub.Token = IF @ = "" THEN envToken ELSE @]
         IN  IF Validate(c) # "nil"
             THEN [err |-> "config validation failed", cause |-> Validate(c),
                   isNil |-> TRUE, cfg |-> ZeroConfig]
             ELSE [err |-> "nil", cause |-> "", isNil |-> FALSE, cfg |-> c]

\* the order of the four loops of processRepository
KindOrder ==
    <<"repository_secret", "environment_secret",
      "repository_variable", "environment_variable">>

\* the (scope, environment, name) entries the four loops range over
Units(c) ==
    {[kind |-> "repository_secret", env |-> "", name |-> n] :
        n \in DOMAIN c.RepositorySecrets}
    \cup UNION {{[kind |-> "environment_secret", env |-> e, name |-> n] :
                    n \in DOMAIN c.EnvironmentSecrets[e]} :
                e \in DOMAIN c.EnvironmentSecrets}
    \cup {[kind |-> "repository_variable", env |-> "", name |-> n] :
        n \in DOMAIN c.RepositoryVariables}
    \cup UNION {{[kind |-> "environment_variable", env |-> e, name |-> n] :
                    n \in DOMAIN c.EnvironmentVariables[e]} :
                e \in DOMAIN c.EnvironmentVariables}

UnitValue(c, u) ==
    CASE u.kind = "repository_secret" -> c.RepositorySecrets[u.name]
      [] u.kind = "environment_secret" -> c.EnvironmentSecrets[u.env][u.name]
      [] u.kind = "repository_variable" -> c.RepositoryVariables[u.name]
      [] OTHER -> c.EnvironmentVariables[u.env][u.name]

(***************************************************************************)
(* Masking: cmd/easygh/main.go. A Go string is its bytes: len counts bytes *)
(* and s[i:j] slices bytes. A text is a sequence of characters, each       *)
(* character given by the bytes of its UTF-8 encoding.                     *)
(***************************************************************************)
\* the string literal "****"
Stars == <<42, 42, 42, 42>>

\* the bytes of a text: the encodings of its characters, one after the other
RECURSIVE Utf8(_)
Utf8(chars) == IF chars = <<>> THEN <<>> ELSE Head(chars) \o Utf8(Tail(chars))

\* maskSecret(secret)
maskSecret(secret) ==
    IF Len(secret) <= 4
    THEN Stars
    ELSE SubSeq(secret, 1, 2) \o Stars \o SubSeq(secret, Len(secret) - 1, Len(secret))

(***************************************************************************)
(* Errors: internal/github/errors.go.                                      *)
(* A remote response is "ok", an *github.ErrorResponse with a status       *)
(* ("e404", "e500"), or "ctx": the error of a call whose context was       *)
(* cancelled (not an ErrorResponse).                                       *)
(***************************************************************************)
NilErr ==
    [type |-> "nil", msg |-> "", Owner |-> "", Repo |-> "", Environment |-> "",
     Type |-> "", Name |-> "", Err |-> ""]

\* an error value passed on as it came from the library
RawErr(resp) == [NilErr EXCEPT !.type = "raw", !.Err = resp]

\* fmt.Errorf(msg + ": %w", err)
Errorf(msg, cause) == [NilErr EXCEPT !.type = "fmt", !.msg = msg, !.Err = cause]

StatusCode(resp) ==
    CASE resp = "e404" -> StatusNotFound
      [] resp = "e500" -> 500
      [] resp = "e409" -> 409
      [] OTHER -> 0

\* err.(*github.ErrorResponse): "eNoResp" is one whose Response is nil
IsErrorResponse(resp) == resp \in {"e404", "e500", "e409", "eNoResp"}

\* (*SecretError).Unwrap, (*VariableError).Unwrap: the error that was wrapped
Unwrap(e) == RawErr(e.Err)

\* handleGitHubError with the resource type looked at before the status
handleGitHubErrorTypeFirst(err, owner, repo, environment, resourceType, name) ==
    IF err = "ok" THEN NilErr
    ELSE IF ~IsErrorResponse(err) THEN RawErr(err)
    ELSE IF resourceType \in {"repository_secret", "environment_secret"}
    THEN [NilErr EXCEPT !.type = "SecretError", !.Type = resourceType, !.Owner = owner,
                        !.Repo = repo, !.Environment = environment, !.Name = name,
                        !.Err = err]
    ELSE IF resourceType \in {"repository_variable", "environment_variable"}
    THEN [NilErr EXCEPT !.type = "VariableError", !.Type = resourceType, !.Owner = owner,
                        !.Repo = repo, !.Environment = environment, !.Name = name,
                        !.Err = err]
    ELSE IF StatusCode(err) = StatusNotFound
    THEN IF environment # ""
         THEN [NilErr EXCEPT !.type = "EnvironmentNotFoundError", !.Owner = owner,
                             !.Repo = repo, !.Environment = environment]
         ELSE [NilErr EXCEPT !.type = "RepositoryNotFoundError", !.Owner = owner,
                             !.Repo = repo]
    ELSE RawErr(err)

\* handleGitHubError with the variable errors wrapped as SecretError
handleGitHubErrorAllSecret(err, owner, repo, environment, resourceType, name) ==
    IF err = "ok" THEN NilErr
    ELSE IF ~IsErrorResponse(err) THEN RawErr(err)
    ELSE IF StatusCode(err) = StatusNotFound
    THEN IF environment # ""
         THEN [NilErr EXCEPT !.type = "EnvironmentNotFoundError", !.Owner = owner,
                             !.Repo = repo, !.Environment = environment]
         ELSE [NilErr EXCEPT !.type = "RepositoryNotFoundError", !.Owner = owner,
                             !.Repo = repo]
    ELSE IF resourceType \in {"repository_secret", "environment_secret",
                              "repository_variable", "environment_variable"}
    THEN [NilErr EXCEPT !.type = "SecretError", !.Type = resourceType, !.Owner = owner,
                        !.Repo = repo, !.Environment = environment, !.Name = name,
                        !.Err = err]
    ELSE RawErr(err)

\* handleGitHubError(err, owner, repo, environment, resourceType, name)
handleGitHubError(err, owner, repo, environment, resourceType, name) ==
    IF err = "ok" THEN NilErr
    ELSE IF ~IsErrorResponse(err) THEN RawErr(err)
    ELSE IF StatusCode(err) = StatusNotFound
    THEN IF environment # ""
         THEN [NilErr EXCEPT !.type = "EnvironmentNotFoundError", !.Owner = owner,
                             !.Repo = repo, !.Environment = environment]
         ELSE [NilErr EXCEPT !.type = "RepositoryNotFoundError", !.Owner = owner,
                             !.Repo = repo]
    ELSE IF resourceType \in {"repository_secret", "environment_secret"}
    THEN [NilErr EXCEPT !.type = "SecretError", !.Type = resourceType, !.Owner = owner,
                        !.Repo = repo, !.Environment = environment, !.Name = name,
                        !.Err = err]
    ELSE IF resourceType \in {"repository_variable", "environment_variable"}
    THEN [NilErr EXCEPT !.type = "VariableError", !.Type = resourceType, !.Owner = owner,
                        !.Repo = repo, !.Environment = environment, !.Name = name,
                        !.Err = err]
    ELSE RawErr(err)

(***************************************************************************)
(* Client operations: internal/github (client.go, secrets.go).             *)
(* Each operator is one call of the method; `in` holds what the            *)
(* environment answers to the calls the method makes: the remote           *)
(* responses, the key the remote returns and what rand.Reader yields.      *)
(* The value is what the method returns and what it did on the way.        *)
(***************************************************************************)
\* the remote's public key, as decoded by base64.StdEncoding.DecodeString
KeyBytes(keyLen) == [i \in 1..keyLen |-> (i * 7) % 256]

NoOp ==
    [err |-> NilErr,   \* the error the method returns
     api |-> <<>>,     \* endpoints called, in order
     resps |-> <<>>,   \* their responses, in order
     local |-> 0,      \* local faults met: undecodable key, rand failure
     keyLen |-> -1,    \* decoded length of the fetched key, -1 if none
     keyGen |-> FALSE, \* box.GenerateKey was called
     encLen |-> -1,    \* length of encryptSecret's output, -1 if none
     wrote |-> FALSE,  \* a create/update call was issued
     found |-> FALSE]  \* a probe found the entry

\* githubClient.GetPublicKey
GetPublicKey(owner, repo, in) ==
    [NoOp EXCEPT !.api = <<"GetRepoPublicKey">>, !.resps = <<in.pk>>,
                 !.err = IF in.pk = "ok" THEN NilErr ELSE RawErr(in.pk)]

\* githubClient.GetRepositoryID
GetRepositoryID(owner, repo, resp) ==
    [NoOp EXCEPT !.api = <<"Repositories.Get">>, !.resps = <<resp>>,
                 !.err = handleGitHubError(resp, owner, repo, "", "", "")]

\* githubClient.GetEnvironmentPublicKey
GetEnvironmentPublicKey(owner, repo, environment, in) ==
    LET id == GetRepositoryID(owner, repo, in.id1)
    IN  IF id.err # NilErr THEN id
        ELSE [NoOp EXCEPT
                !.api = id.api \o <<"GetEnvPublicKey">>,
                !.resps = id.resps \o <<in.pk>>,
                !.err = handleGitHubError(in.pk, owner, repo, environment,
                                          "environment_secret", "")]

\* SealForKey with the error of encryptSecret dropped
SealForKeyIgnoreError(op, secretValue, in) ==
    IF ~in.b64ok
    THEN [op EXCEPT !.local = 1,
                    !.err = Errorf("failed to decode public key", "base64")]
    ELSE LET publicKeyBytes == CopyInto(KeySize, KeyBytes(in.keyLen))
             enc == encryptSecret(secretValue, publicKeyBytes, in.seed)
         IN  [op EXCEPT !.keyLen = in.keyLen, !.keyGen = TRUE,
                        !.encLen = Len(enc.out)]

\* the part SetSecret and SetEnvironmentSecret share after the key fetch:
\* decode the key, copy it into a [32]byte, encrypt
SealForKey(op, secretValue, in) ==
    IF ~in.b64ok
    THEN [op EXCEPT !.local = 1,
                    !.err = Errorf("failed to decode public key", "base64")]
    ELSE LET publicKeyBytes == CopyInto(KeySize, KeyBytes(in.keyLen))
             enc == encryptSecret(secretValue, publicKeyBytes, in.seed)
         IN  IF enc.err # "nil"
             THEN [op EXCEPT !.keyLen = in.keyLen, !.keyGen = TRUE, !.local = 1,
                             !.err = Errorf("failed to encrypt secret", enc.err)]
             ELSE [op EXCEPT !.keyLen = in.keyLen, !.keyGen = TRUE,
                             !.encLen = Len(enc.out)]

\* githubClient.SetSecret (SetRepositorySecret is its alias)
SetSecret(owner, repo, name, secretValue, in) ==
    LET publicKey == GetPublicKey(owner, repo, in)
    IN  IF publicKey.err # NilErr
        THEN [publicKey EXCEPT !.err = Errorf("failed to get public key", in.pk)]
        ELSE LET sealed == SealForKey(publicKey, secretValue, in)
             IN  IF sealed.err # NilErr THEN sealed
                 ELSE [sealed EXCEPT
                         !.api = @ \o <<"CreateOrUpdateRepoSecret">>,
                         !.resps = @ \o <<in.wr>>,
                         !.wrote = TRUE,
                         !.err = handleGitHubError(in.wr, owner, repo, "",
                                                   "repository_secret", name)]

\* githubClient.SetEnvironmentSecret
SetEnvironmentSecret(owner, repo, environment, name, secretValue, in) ==
    LET publicKey == GetEnvironmentPublicKey(owner, repo, environment, in)
    IN  IF publicKey.err # NilErr THEN publicKey
        ELSE LET sealed == SealForKey(publicKey, secretValue, in)
             IN  IF sealed.err # NilErr THEN sealed
                 ELSE LET id == GetRepositoryID(owner, repo, in.id2)
                          withId == [sealed EXCEPT !.api = @ \o id.api,
                                                   !.resps = @ \o id.resps]
                      IN  IF id.err # NilErr
                          THEN [withId EXCEPT !.err = id.err]
                          ELSE [withId EXCEPT
                                  !.api = @ \o <<"CreateOrUpdateEnvSecret">>,
                                  !.resps = @ \o <<in.wr>>,
                                  !.wrote = TRUE,
                                  !.err = handleGitHubError(in.wr, owner, repo, environment,
                                                            "environment_secret", name)]

\* base64.StdEncoding.EncodeToString(src), from byte i on: every 3 bytes give
\* 4 six-bit digits (their index in the alphabet); 64 stands for the pad "="
RECURSIVE EncodeFrom(_, _)
EncodeFrom(src, i) ==
    IF i > Len(src) THEN <<>>
    ELSE LET b1 == src[i]
             b2 == IF i + 1 <= Len(src) THEN src[i + 1] ELSE 0
             b3 == IF i + 2 <= Len(src) THEN src[i + 2] ELSE 0
             v == b1 * 65536 + b2 * 256 + b3
         IN  << v \div 262144,
                (v \div 4096) % 64,
                IF i + 1 <= Len(src) THEN (v \div 64) % 64 ELSE 64,
                IF i + 2 <= Len(src) THEN v % 64 ELSE 64 >>
             \o EncodeFrom(src, i + 3)

EncodeToString(src) == EncodeFrom(src, 1)

\* EncryptedSecret with the KeyID of a key fetched earlier and kept
EncryptedSecretStaleKeyID(name, encrypted, keyID) ==
    [Name |-> name, EncryptedValue |-> EncodeToString(encrypted), KeyID |-> "key-1"]

\* &github.EncryptedSecret{Name, EncryptedValue, KeyID}
EncryptedSecret(name, encrypted, keyID) ==
    [Name |-> name, EncryptedValue |-> EncodeToString(encrypted), KeyID |-> keyID]

\* the secret SetSecret and SetEnvironmentSecret submit: the encryption of
\* secretValue under the fetched key, with the KeyID the fetch returned
SecretBody(name, secretValue, in, keyID) ==
    EncryptedSecret(name,
                    encryptSecret(secretValue, CopyInto(KeySize, KeyBytes(in.keyLen)),
                                  in.seed).out,
                    keyID)

\* &github.ActionsVariable{Name, Value}
ActionsVariable(name, value) == [Name |-> name, Value |-> value]

\* the endpoints addressed by (repoID, environment)
EnvEndpoints ==
    {"GetEnvPublicKey", "CreateOrUpdateEnvSecret", "UpdateEnvVariable",
     "CreateEnvVariable", "GetEnvSecret", "GetEnvVariable"}

\* the requests an operation with result r sent to the remote, in order:
\* each with the repository (and environment) it addresses; the create and
\* update requests carry the body
Requests(r, owner, repo, environment, body) ==
    [i \in 1..Len(r.api) |->
        LET isWrite == r.api[i] \in {"CreateOrUpdateRepoSecret", "CreateOrUpdateEnvSecret",
                                      "UpdateRepoVariable", "CreateRepoVariable",
                                      "UpdateEnvVariable", "CreateEnvVariable"}
        IN  [endpoint |-> r.api[i],
             owner |-> owner,
             repo |-> repo,
             environment |-> IF r.api[i] \in EnvEndpoints THEN environment ELSE "",
             hasBody |-> isWrite,
             body |-> IF isWrite THEN body ELSE [Name |-> ""]]]

\* githubClient.SetRepositoryVariable: update, and create if the update failed
SetRepositoryVariable(owner, repo, name, value, in) ==
    IF in.up = "ok"
    THEN [NoOp EXCEPT !.api = <<"UpdateRepoVariable">>, !.resps = <<in.up>>,
                      !.wrote = TRUE]
    ELSE [NoOp EXCEPT !.api = <<"UpdateRepoVariable", "CreateRepoVariable">>,
                      !.resps = <<in.up, in.cr>>,
                      !.wrote = TRUE,
                      !.err = handleGitHubError(in.cr, owner, repo, "",
                                                "repository_variable", name)]

\* SetEnvironmentVariable returning the error of the failed update, with no
\* create attempt
SetEnvironmentVariableNoFallback(owner, repo, environment, name, value, in) ==
    LET id == GetRepositoryID(owner, repo, in.id1)
    IN  IF id.err # NilErr THEN id
        ELSE [id EXCEPT !.api = @ \o <<"UpdateEnvVariable">>,
                        !.resps = @ \o <<in.up>>, !.wrote = TRUE,
                        !.err = handleGitHubError(in.up, owner, repo, environment,
                                                  "environment_variable", name)]

\* githubClient.SetEnvironmentVariable
SetEnvironmentVariable(owner, repo, environment, name, value, in) ==
    LET id == GetRepositoryID(owner, repo, in.id1)
    IN  IF id.err # NilErr THEN id
        ELSE IF in.up = "ok"
        THEN [id EXCEPT !.api = @ \o <<"UpdateEnvVariable">>,
                        !.resps = @ \o <<in.up>>, !.wrote = TRUE]
        ELSE [id EXCEPT !.api = @ \o <<"UpdateEnvVariable", "CreateEnvVariable">>,
                        !.resps = @ \o <<in.up, in.cr>>,
                        !.wrote = TRUE,
                        !.err = handleGitHubError(in.cr, owner, repo, environment,
                                                  "environment_variable", name)]

\* githubClient.GetSecret (GetRepositorySecret is its alias)
GetSecret(owner, repo, name, in) ==
    [NoOp EXCEPT !.api = <<"GetRepoSecret">>, !.resps = <<in.get>>,
                 !.found = (in.get = "ok"),
                 !.err = handleGitHubError(in.get, owner, repo, "",
                                           "repository_secret", name)]

\* githubClient.GetRepositoryVariable
GetRepositoryVariable(owner, repo, name, in) ==
    [NoOp EXCEPT !.api = <<"GetRepoVariable">>, !.resps = <<in.get>>,
                 !.found = (in.get = "ok"),
                 !.err = handleGitHubError(in.get, owner, repo, "",
                                           "repository_variable", name)]

\* githubClient.GetEnvironmentSecret
GetEnvironmentSecret(owner, repo, environment, name, in) ==
    LET id == GetRepositoryID(owner, repo, in.id1)
    IN  IF id.err # NilErr THEN id
        ELSE [id EXCEPT !.api = @ \o <<"GetEnvSecret">>,
                        !.resps = @ \o <<in.get>>,
                        !.found = (in.get = "ok"),
                        !.err = handleGitHubError(in.get, owner, repo, environment,
                                                  "environment_secret", name)]

\* githubClient.GetEnvironmentVariable
GetEnvironmentVariable(owner, repo, environment, name, in) ==
    LET id == GetRepositoryID(owner, repo, in.id1)
    IN  IF id.err # NilErr THEN id
        ELSE [id EXCEPT !.api = @ \o <<"GetEnvVariable">>,
                        !.resps = @ \o <<in.get>>,
                        !.found = (in.get = "ok"),
                        !.err = handleGitHubError(in.get, owner, repo, environment,
                                                  "environment_variable", name)]

(***************************************************************************)
(* Inputs of the model.                                                    *)
(***************************************************************************)
RepoNames == {"repo1", "repo2"}

\* the repo lists: every list of 1..MaxRepos names (a name may repeat), up
\* to the renaming of repositories
RepoLists ==
    {rs \in UNION {[1..k -> RepoNames] : k \in 1..MaxRepos} : rs[1] = "repo1"}

\* "s3" and "v1" as bytes
SecretValue == <<115, 51>>
VariableValue == <<118, 49>>
\* "s3cr3t"
LongSecretValue == <<115, 51, 99, 114, 51, 116>>

\* the four value sections of the configurations explored
Catalogs ==
    { \* one repository secret
      [RepositorySecrets |-> [n \in {"A"} |-> SecretValue],
       EnvironmentSecrets |-> EmptyMap,
       RepositoryVariables |-> EmptyMap,
       EnvironmentVariables |-> EmptyMap],
      \* two repository secrets
      [RepositorySecrets |-> [n \in {"A", "B"} |-> SecretValue],
       EnvironmentSecrets |-> EmptyMap,
       RepositoryVariables |-> EmptyMap,
       EnvironmentVariables |-> EmptyMap],
      \* a repository secret and an environment secret
      [RepositorySecrets |-> [n \in {"A"} |-> SecretValue],
       EnvironmentSecrets |-> [e \in {"prod"} |-> [n \in {"A"} |-> LongSecretValue]],
       RepositoryVariables |-> EmptyMap,
       EnvironmentVariables |-> EmptyMap],
      \* a repository variable and an environment variable
      [RepositorySecrets |-> EmptyMap,
       EnvironmentSecrets |-> EmptyMap,
       RepositoryVariables |-> [n \in {"V"} |-> VariableValue],
       EnvironmentVariables |-> [e \in {"prod"} |-> [n \in {"V"} |-> VariableValue]]],
      \* one entry in each of the four sections
      [RepositorySecrets |-> [n \in {"A"} |-> SecretValue],
       EnvironmentSecrets |-> [e \in {"prod"} |-> [n \in {"A"} |-> LongSecretValue]],
       RepositoryVariables |-> [n \in {"V"} |-> VariableValue],
       EnvironmentVariables |-> [e \in {"prod"} |-> [n \in {"V"} |-> VariableValue]]],
      \* an environment declared without entries, and one variable
      [RepositorySecrets |-> EmptyMap,
       EnvironmentSecrets |-> [e \in {"prod"} |-> EmptyMap],
       RepositoryVariables |-> [n \in {"V"} |-> VariableValue],
       EnvironmentVariables |-> EmptyMap],
      \* an environment declared without entries, and nothing else
      [RepositorySecrets |-> EmptyMap,
       EnvironmentSecrets |-> [e \in {"prod"} |-> EmptyMap],
       RepositoryVariables |-> EmptyMap,
       EnvironmentVariables |-> EmptyMap],
      \* no section at all: rejected by Validate
      [RepositorySecrets |-> EmptyMap,
       EnvironmentSecrets |-> EmptyMap,
       RepositoryVariables |-> EmptyMap,
       EnvironmentVariables |-> EmptyMap] }

CandidateConfigs ==
    {c \in {[GitHub |-> [Token |-> "token", Owner |-> "org", Repos |-> rs],
             RepositorySecrets |-> cat.RepositorySecrets,
             EnvironmentSecrets |-> cat.EnvironmentSecrets,
             RepositoryVariables |-> cat.RepositoryVariables,
             EnvironmentVariables |-> cat.EnvironmentVariables] :
                rs \in RepoLists, cat \in Catalogs} :
        Len(c.GitHub.Repos) * Cardinality(Units(c)) <= MaxWork}

\* a valid configuration file
BaseFileConfig ==
    [GitHub |-> [Token |-> "token", Owner |-> "org", Repos |-> <<"repo1">>],
     RepositorySecrets |-> [n \in {"A"} |-> SecretValue],
     EnvironmentSecrets |-> EmptyMap,
     RepositoryVariables |-> EmptyMap,
     EnvironmentVariables |-> EmptyMap]

\* what the configuration file decodes to: a valid configuration, and the
\* same without token, without owner, without repositories, with an empty
\* repository name, without any section, with an empty variable value
RunFileConfigs ==
    {BaseFileConfig,
     [BaseFileConfig EXCEPT !.GitHub.Token = ""],
     [BaseFileConfig EXCEPT !.GitHub.Owner = ""],
     [BaseFileConfig EXCEPT !.GitHub.Repos = <<>>],
     [BaseFileConfig EXCEPT !.GitHub.Repos = <<"">>],
     [BaseFileConfig EXCEPT !.RepositorySecrets = EmptyMap],
     [BaseFileConfig EXCEPT !.EnvironmentVariables =
                               [e \in {"prod"} |-> [n \in {"V"} |-> <<>>]]]}

RunFiles ==
    {[read |-> r, c |-> ZeroConfig] : r \in {"missing", "malformed"}}
        \cup {[read |-> "ok", c |-> c] : c \in RunFileConfigs}

\* decoded lengths of the key the remote returns: the 15 bytes of
\* "dGVzdC1wdWJsaWMta2V5", a curve25519 key, one byte too many
KeyLens == {15, KeySize, KeySize + 1}

\* what rand.Reader yields to box.GenerateKey; 0: it fails
RandOutcomes == {0, 1, 2}

\* the KeyID a public-key response carries
KeyIds == {"key-1", "key-2"}

Endpoints ==
    {"GetRepoPublicKey", "GetEnvPublicKey", "Repositories.Get",
     "CreateOrUpdateRepoSecret", "CreateOrUpdateEnvSecret",
     "UpdateRepoVariable", "CreateRepoVariable",
     "UpdateEnvVariable", "CreateEnvVariable",
     "GetRepoSecret", "GetEnvSecret", "GetRepoVariable", "GetEnvVariable"}

WriteEndpoints ==
    {"CreateOrUpdateRepoSecret", "CreateOrUpdateEnvSecret",
     "UpdateRepoVariable", "CreateRepoVariable",
     "UpdateEnvVariable", "CreateEnvVariable"}

KeyEndpoints == {"GetRepoPublicKey", "GetEnvPublicKey"}

ProbeEndpoints == {"GetRepoSecret", "GetEnvSecret", "GetRepoVariable", "GetEnvVariable"}

\* what the calls variable counts: the remote calls and the encryptions
Counted == Endpoints \cup {"encryptSecret"}

NoUnit == [kind |-> "", env |-> "", name |-> ""]

Workers == 1..Len(cfg.GitHub.Repos)

RECURSIVE CountIn(_, _)
CountIn(seq, S) ==
    IF seq = <<>> THEN 0
    ELSE (IF Head(seq) \in S THEN 1 ELSE 0) + CountIn(Tail(seq), S)

\* a remote call answers "ok" or an error response; a call made with a
\* cancelled context (ctx is handed to every client call) may also return
\* the context's error
Responses == {"ok", "e404", "e500"} \cup (IF ctxCancelled THEN {"ctx"} ELSE {})

\* once a call of an operation has returned the context's error, ctx is
\* cancelled when the next one is issued, which fails the same way
CtxSticky(resps) ==
    \A i \in 1..Len(resps) : \A j \in 1..Len(resps) :
        (i < j /\ resps[i] = "ctx") => resps[j] = "ctx"

\* how often operation result r called e
Issued(r, e) ==
    IF e = "encryptSecret" THEN (IF r.keyGen THEN 1 ELSE 0)
    ELSE CountIn(r.api, {e})

\* 1 when the operation met a fault, else 0
Cost(r) == IF CountIn(r.resps, {"e404", "e500"}) + r.local > 0 THEN 1 ELSE 0

\* the remote answers while the fault budget lasts, and after
Answers(budget) ==
    IF budget > 0 THEN Responses ELSE Responses \ {"e404", "e500"}

\* the answers of the environment to one client operation on a unit of the
\* given kind: the remote answers are drawn from R; local faults (an
\* undecodable key, a failing rand.Reader) occur when mayFault
SecretInputs(kind, R, mayFault) ==
    [id1 : IF kind = "environment_secret" THEN R ELSE {"ok"},
     pk : R,
     b64ok : IF mayFault THEN BOOLEAN ELSE {TRUE},
     keyLen : KeyLens,
     seed : IF mayFault THEN RandOutcomes ELSE RandOutcomes \ {0},
     id2 : IF kind = "environment_secret" THEN R ELSE {"ok"},
     wr : R]

VariableInputs(kind, R) ==
    [id1 : IF kind = "environment_variable" THEN R ELSE {"ok"},
     up : R,
     cr : R]

ProbeInputs(kind, R) ==
    [id1 : IF kind \in {"environment_secret", "environment_variable"}
           THEN R ELSE {"ok"},
     get : R]

(***************************************************************************)
(* The dispatcher: cmd/easygh/main.go.                                     *)
(***************************************************************************)
\* the client call processRepository makes for unit u in dry-run mode
ProbeCall(owner, repo, u, in) ==
    CASE u.kind = "repository_secret" -> GetSecret(owner, repo, u.name, in)
      [] u.kind = "environment_secret" ->
            GetEnvironmentSecret(owner, repo, u.env, u.name, in)
      [] u.kind = "repository_variable" ->
            GetRepositoryVariable(owner, repo, u.name, in)
      [] OTHER -> GetEnvironmentVariable(owner, repo, u.env, u.name, in)

\* the client call processRepository makes for unit u otherwise
SetCall(owner, repo, u, value, in) ==
    CASE u.kind = "repository_secret" -> SetSecret(owner, repo, u.name, value, in)
      [] u.kind = "environment_secret" ->
            SetEnvironmentSecret(owner, repo, u.env, u.name, value, in)
      [] u.kind = "repository_variable" ->
            SetRepositoryVariable(owner, repo, u.name, value, in)
      [] OTHER -> SetEnvironmentVariable(owner, repo, u.env, u.name, value, in)

\* fmt.Errorf("repo %s/%s <scope> %s [in environment %s]: %w", ...)
UnitError(owner, repo, u, err) ==
    [owner |-> owner, repo |-> repo, kind |-> u.kind, env |-> u.env,
     name |-> u.name, cause |-> err]

\* LogValue with the environment secret logged as it is
LogValueUnmasked(dryRun, u, value) ==
    IF ~dryRun THEN [logged |-> FALSE, value |-> <<>>]
    ELSE IF u.kind = "repository_secret"
    THEN [logged |-> TRUE, value |-> maskSecret(value)]
    ELSE [logged |-> TRUE, value |-> value]

\* the value the log line of unit u carries ("value", "new_value"): a dry-run
\* preview shows maskSecret(secretValue) or varValue; the other lines
\* ("Successfully set ...", "Failed to set ...") carry no value
LogValue(dryRun, u, value) ==
    IF ~dryRun THEN [logged |-> FALSE, value |-> <<>>]
    ELSE IF u.kind \in {"repository_secret", "environment_secret"}
    THEN [logged |-> TRUE, value |-> maskSecret(value)]
    ELSE [logged |-> TRUE, value |-> value]

\* units goroutine w has taken up (it passed their checkpoint)
Begun(w) ==
    {trace[w][i].unit : i \in 1..Len(trace[w])}
        \cup (IF pc[w] \in {"call", "create"} THEN {cur[w]} ELSE {})

\* NextUnits with the four sections ranged over as one collection
NextUnitsAnyOrder(w) == Units(cfg) \ Begun(w)

\* the units the loops of processRepository may take up next: the loops run
\* in KindOrder; a map is ranged over in any order; the names of one
\* environment are ranged over before the next environment is entered
NextUnits(w) ==
    LET rem == Units(cfg) \ Begun(w)
        ks == {k \in 1..4 : \E u \in rem : u.kind = KindOrder[k]}
    IN  IF ks = {} THEN {}
        ELSE LET k == CHOOSE x \in ks : \A y \in ks : x <= y
                 inKind == {u \in rem : u.kind = KindOrder[k]}
                 entered == {u \in inKind :
                                \E b \in Begun(w) : b.kind = u.kind /\ b.env = u.env}
             IN  IF entered # {} THEN entered ELSE inKind

\* OpResults with the dry-run test missing in the two variable loops
OpResultsSetsVariables(w) ==
    LET u == cur[w]
        owner == cfg.GitHub.Owner
        repo == cfg.GitHub.Repos[w]
        all == IF u.kind \in {"repository_variable", "environment_variable"}
               THEN {SetCall(owner, repo, u, UnitValue(cfg, u), in) :
                        in \in VariableInputs(u.kind, Answers(MaxFaults - faults))}
               ELSE IF flags.DryRun
               THEN {ProbeCall(owner, repo, u, in) : in \in ProbeInputs(u.kind, Responses)}
               ELSE {SetCall(owner, repo, u, UnitValue(cfg, u), in) :
                        in \in SecretInputs(u.kind, Answers(MaxFaults - faults),
                                            faults < MaxFaults)}
    IN  {r \in all : CtxSticky(r.resps)}

\* what the client operation for the current unit of w can return
OpResults(w) ==
    LET u == cur[w]
        owner == cfg.GitHub.Owner
        repo == cfg.GitHub.Repos[w]
        all == IF flags.DryRun
               THEN {ProbeCall(owner, repo, u, in) : in \in ProbeInputs(u.kind, Responses)}
               ELSE IF u.kind \in {"repository_secret", "environment_secret"}
               THEN {SetCall(owner, repo, u, UnitValue(cfg, u), in) :
                        in \in SecretInputs(u.kind, Answers(MaxFaults - faults),
                                            faults < MaxFaults)}
               ELSE {SetCall(owner, repo, u, UnitValue(cfg, u), in) :
                        in \in VariableInputs(u.kind, Answers(MaxFaults - faults))}
    IN  {r \in all : CtxSticky(r.resps)}

\* the goroutine's first statement: `if ctx.Err() != nil { return }`
Start(w) ==
    /\ phase = "running"
    /\ pc[w] = "start"
    /\ pc' = [pc EXCEPT ![w] = IF ctxCancelled THEN "done" ELSE "loop"]
    /\ UNCHANGED <<cfg, flags, ctxCancelled, errorMutex, errors, cur, repoErrors,
                   trace, calls, faults, phase, retErr, opVars, storeVars>>

\* ReturnTo without the `len(repoErrors) > 0` test
ReturnToAlwaysCollect(w) == "lock"

\* ReturnTo with the collected errors dropped when the context is cancelled
ReturnToDropOnCancel(w) ==
    IF repoErrors[w] # <<>> /\ ~ctxCancelled THEN "lock" ELSE "done"

\* processRepository returns its errors; the goroutine goes on to collect
\* them when there are some, and ends otherwise
ReturnTo(w) == IF repoErrors[w] # <<>> THEN "lock" ELSE "done"

\* Checkpoint without the `ctx.Err() != nil` test
CheckpointNoCtx(w) ==
    /\ phase = "running"
    /\ pc[w] = "loop"
    /\ IF NextUnits(w) = {}
       THEN /\ pc' = [pc EXCEPT ![w] = IF repoErrors[w] # <<>> THEN "lock" ELSE "done"]
            /\ cur' = cur
       ELSE \E u \in NextUnits(w) :
                /\ cur' = [cur EXCEPT ![w] = u]
                /\ pc' = [pc EXCEPT ![w] = "call"]
    /\ UNCHANGED <<cfg, flags, ctxCancelled, errorMutex, errors, repoErrors,
                   trace, calls, faults, phase, retErr, opVars, storeVars>>

\* Checkpoint with the loops left once a unit has failed
CheckpointReturnsOnError(w) ==
    /\ phase = "running"
    /\ pc[w] = "loop"
    /\ IF NextUnits(w) = {} \/ ctxCancelled \/ repoErrors[w] # <<>>
       THEN /\ pc' = [pc EXCEPT ![w] = ReturnTo(w)]
            /\ cur' = cur
       ELSE \E u \in NextUnits(w) :
                /\ cur' = [cur EXCEPT ![w] = u]
                /\ pc' = [pc EXCEPT ![w] = "call"]
    /\ UNCHANGED <<cfg, flags, ctxCancelled, errorMutex, errors, repoErrors,
                   trace, calls, faults, phase, retErr, opVars, storeVars>>

\* Checkpoint with cancel() called inside the loops, once a unit has failed
CheckpointCancelsOnError(w) ==
    /\ phase = "running"
    /\ pc[w] = "loop"
    /\ IF NextUnits(w) = {} \/ ctxCancelled
       THEN /\ pc' = [pc EXCEPT ![w] = ReturnTo(w)]
            /\ cur' = cur
            /\ ctxCancelled' = ctxCancelled
       ELSE IF repoErrors[w] # <<>> /\ ~flags.ContinueOnError
       THEN /\ ctxCancelled' = TRUE
            /\ pc' = pc
            /\ cur' = cur
       ELSE \E u \in NextUnits(w) :
                /\ cur' = [cur EXCEPT ![w] = u]
                /\ pc' = [pc EXCEPT ![w] = "call"]
                /\ ctxCancelled' = ctxCancelled
    /\ UNCHANGED <<cfg, flags, errorMutex, errors, repoErrors,
                   trace, calls, faults, phase, retErr, opVars, storeVars>>

\* head of a loop iteration: `if ctx.Err() != nil { return errors }`, then
\* the unit is taken up; when the loops are exhausted: `return errors`
Checkpoint(w) ==
    /\ phase = "running"
    /\ pc[w] = "loop"
    /\ IF NextUnits(w) = {} \/ ctxCancelled
       THEN /\ pc' = [pc EXCEPT ![w] = ReturnTo(w)]
            /\ cur' = cur
       ELSE \E u \in NextUnits(w) :
                /\ cur' = [cur EXCEPT ![w] = u]
                /\ pc' = [pc EXCEPT ![w] = "call"]
    /\ UNCHANGED <<cfg, flags, ctxCancelled, errorMutex, errors, repoErrors,
                   trace, calls, faults, phase, retErr, opVars, storeVars>>

\* ProcessUnit with the error of a failed probe appended to the local errors
ProcessUnitRecordsProbeError(w) ==
    /\ phase = "running"
    /\ pc[w] = "call"
    /\ \E r \in OpResults(w) :
        LET u == cur[w]
            line == IF flags.DryRun
                    THEN (IF r.err # NilErr THEN "would_create" ELSE "would_update")
                    ELSE (IF r.err # NilErr THEN "failed" ELSE "ok")
            shown == LogValue(flags.DryRun, u, UnitValue(cfg, u))
        IN  /\ trace' = [trace EXCEPT ![w] =
                            Append(@, [unit |-> u, res |-> line, shown |-> shown])]
            /\ repoErrors' =
                 IF r.err # NilErr
                 THEN [repoErrors EXCEPT ![w] =
                         Append(@, UnitError(cfg.GitHub.Owner, cfg.GitHub.Repos[w], u, r.err))]
                 ELSE repoErrors
            /\ calls' = [e \in Counted |-> calls[e] + Issued(r, e)]
            /\ faults' = IF flags.DryRun THEN faults ELSE faults + Cost(r)
    /\ cur' = [cur EXCEPT ![w] = NoUnit]
    /\ pc' = [pc EXCEPT ![w] = "loop"]
    /\ UNCHANGED <<cfg, flags, ctxCancelled, errorMutex, errors, phase, retErr,
                   opVars, storeVars>>

\* body of a loop iteration: the probe (dry run) or the set operation, the
\* log line, and on failure the append to the local errors
ProcessUnit(w) ==
    /\ phase = "running"
    /\ pc[w] = "call"
    /\ \E r \in OpResults(w) :
        LET u == cur[w]
            line == IF flags.DryRun
                    THEN (IF r.err # NilErr THEN "would_create" ELSE "would_update")
                    ELSE (IF r.err # NilErr THEN "failed" ELSE "ok")
            shown == LogValue(flags.DryRun, u, UnitValue(cfg, u))
        IN  /\ trace' = [trace EXCEPT ![w] =
                            Append(@, [unit |-> u, res |-> line, shown |-> shown])]
            /\ repoErrors' =
                 IF ~flags.DryRun /\ r.err # NilErr
                 THEN [repoErrors EXCEPT ![w] =
                         Append(@, UnitError(cfg.GitHub.Owner, cfg.GitHub.Repos[w], u, r.err))]
                 ELSE repoErrors
            /\ calls' = [e \in Counted |-> calls[e] + Issued(r, e)]
            /\ faults' = IF flags.DryRun THEN faults ELSE faults + Cost(r)
    /\ cur' = [cur EXCEPT ![w] = NoUnit]
    /\ pc' = [pc EXCEPT ![w] = "loop"]
    /\ UNCHANGED <<cfg, flags, ctxCancelled, errorMutex, errors, phase, retErr,
                   opVars, storeVars>>

\* Lock that does not wait for errorMutex to be free
LockNoWait(w) ==
    /\ phase = "running"
    /\ pc[w] = "lock"
    /\ errorMutex' = w
    /\ pc' = [pc EXCEPT ![w] = "append"]
    /\ UNCHANGED <<cfg, flags, ctxCancelled, errors, cur, repoErrors, trace,
                   calls, faults, phase, retErr, opVars, storeVars>>

\* errorMutex.Lock()
Lock(w) ==
    /\ phase = "running"
    /\ pc[w] = "lock"
    /\ errorMutex = 0
    /\ errorMutex' = w
    /\ pc' = [pc EXCEPT ![w] = "append"]
    /\ UNCHANGED <<cfg, flags, ctxCancelled, errors, cur, repoErrors, trace,
                   calls, faults, phase, retErr, opVars, storeVars>>

\* AppendErrors with cancel() called whatever flags.ContinueOnError is
AppendErrorsAlwaysCancel(w) ==
    /\ phase = "running"
    /\ pc[w] = "append"
    /\ errors' = errors \o repoErrors[w]
    /\ errorMutex' = 0
    /\ pc' = [pc EXCEPT ![w] = "cancel"]
    /\ UNCHANGED <<cfg, flags, ctxCancelled, cur, repoErrors, trace, calls,
                   faults, phase, retErr, opVars, storeVars>>

\* AppendErrors without errorMutex.Unlock()
AppendErrorsKeepsLock(w) ==
    /\ phase = "running"
    /\ pc[w] = "append"
    /\ errors' = errors \o repoErrors[w]
    /\ pc' = [pc EXCEPT ![w] = IF ~flags.ContinueOnError THEN "cancel" ELSE "done"]
    /\ UNCHANGED <<cfg, flags, ctxCancelled, errorMutex, cur, repoErrors, trace, calls,
                   faults, phase, retErr, opVars, storeVars>>

\* errors = append(errors, repoErrors...); errorMutex.Unlock()
AppendErrors(w) ==
    /\ phase = "running"
    /\ pc[w] = "append"
    /\ errors' = errors \o repoErrors[w]
    /\ errorMutex' = 0
    /\ pc' = [pc EXCEPT ![w] = IF ~flags.ContinueOnError THEN "cancel" ELSE "done"]
    /\ UNCHANGED <<cfg, flags, ctxCancelled, cur, repoErrors, trace, calls,
                   faults, phase, retErr, opVars, storeVars>>

\* `if !flags.ContinueOnError { cancel() }`
Cancel(w) ==
    /\ phase = "running"
    /\ pc[w] = "cancel"
    /\ ctxCancelled' = TRUE
    /\ pc' = [pc EXCEPT ![w] = "done"]
    /\ UNCHANGED <<cfg, flags, errorMutex, errors, cur, repoErrors, trace,
                   calls, faults, phase, retErr, opVars, storeVars>>

\* Report with `len(errors) > 1` for `len(errors) > 0`
ReportOffByOne ==
    /\ phase = "running"
    /\ \A w \in Workers : pc[w] = "done"
    /\ retErr' = IF Len(errors) > 1
                 THEN [failed |-> TRUE, count |-> Len(errors)]
                 ELSE [failed |-> FALSE, count |-> 0]
    /\ phase' = "completed"
    /\ ctxCancelled' = TRUE
    /\ UNCHANGED <<cfg, flags, errorMutex, errors, pc, cur, repoErrors, trace,
                   calls, faults, opVars, storeVars>>

\* Report without wg.Wait(): execute reports while goroutines are running
ReportWithoutWait ==
    /\ phase = "running"
    /\ retErr' = IF Len(errors) > 0
                 THEN [failed |-> TRUE, count |-> Len(errors)]
                 ELSE [failed |-> FALSE, count |-> 0]
    /\ phase' = "completed"
    /\ ctxCancelled' = TRUE
    /\ UNCHANGED <<cfg, flags, errorMutex, errors, pc, cur, repoErrors, trace,
                   calls, faults, opVars, storeVars>>

\* wg.Wait() returns, execute reports and returns (the deferred cancel runs)
Report ==
    /\ phase = "running"
    /\ \A w \in Workers : pc[w] = "done"
    /\ retErr' = IF Len(errors) > 0
                 THEN [failed |-> TRUE, count |-> Len(errors)]
                 ELSE [failed |-> FALSE, count |-> 0]
    /\ phase' = "completed"
    /\ ctxCancelled' = TRUE
    /\ UNCHANGED <<cfg, flags, errorMutex, errors, pc, cur, repoErrors, trace,
                   calls, faults, opVars, storeVars>>

Init ==
    /\ cfg \in {c \in CandidateConfigs : Validate(c) = "nil"}
    /\ flags \in [DryRun : BOOLEAN, ContinueOnError : BOOLEAN]
    /\ ctxCancelled = FALSE
    /\ errorMutex = 0
    /\ errors = <<>>
    /\ pc = [w \in Workers |-> "start"]
    /\ cur = [w \in Workers |-> NoUnit]
    /\ repoErrors = [w \in Workers |-> <<>>]
    /\ trace = [w \in Workers |-> <<>>]
    /\ calls = [e \in Counted |-> 0]
    /\ faults = 0
    /\ phase = "running"
    /\ retErr = [failed |-> FALSE, count |-> 0]
    /\ opName = ""
    /\ opArgs = <<>>
    /\ opRes = <<>>
    /\ opReq = <<>>
    /\ store = {}
    /\ runs = 1

Next ==
    \/ \E w \in Workers : Start(w)
    \/ \E w \in Workers : Checkpoint(w)
    \/ \E w \in Workers : ProcessUnit(w)
    \/ \E w \in Workers : Lock(w)
    \/ \E w \in Workers : AppendErrors(w)
    \/ \E w \in Workers : Cancel(w)
    \/ Report

Spec == Init /\ [][Next]_vars

\* the steps of goroutine w that are its own, not a wait for the remote
Scheduled(w) ==
    /\ w \in Workers
    /\ Start(w) \/ Checkpoint(w) \/ Lock(w) \/ AppendErrors(w) \/ Cancel(w)

\* goroutine w is not waiting for a call of the client to return
CallReturned(w) == w \in Workers => pc[w] # "call"

\* the scheduler runs every goroutine that can take a step, every call of
\* the client returns, and execute goes on when wg.Wait() returns
SpecFair ==
    /\ Spec
    /\ \A w \in 1..MaxRepos : WF_vars(Scheduled(w)) /\ []<>CallReturned(w)
    /\ WF_vars(Report)

\* Runs of two repositories with one unit each in which the remote may fail
\* one unit more than MaxFaults (faults starts one below zero), so that both
\* goroutines can return with errors before either has collected them.
InitContended ==
    /\ cfg \in {c \in CandidateConfigs :
                    /\ Validate(c) = "nil"
                    /\ Len(c.GitHub.Repos) = MaxRepos
                    /\ Cardinality(Units(c)) = 1}
    /\ flags \in [DryRun : {FALSE}, ContinueOnError : BOOLEAN]
    /\ ctxCancelled = FALSE
    /\ errorMutex = 0
    /\ errors = <<>>
    /\ pc = [w \in Workers |-> "start"]
    /\ cur = [w \in Workers |-> NoUnit]
    /\ repoErrors = [w \in Workers |-> <<>>]
    /\ trace = [w \in Workers |-> <<>>]
    /\ calls = [e \in Counted |-> 0]
    /\ faults = -1
    /\ phase = "running"
    /\ retErr = [failed |-> FALSE, count |-> 0]
    /\ opName = ""
    /\ opArgs = <<>>
    /\ opRes = <<>>
    /\ opReq = <<>>
    /\ store = {}
    /\ runs = 1

SpecContended == InitContended /\ [][Next]_vars

(***************************************************************************)
(* The client functions on their own: one call of one function, with its   *)
(* arguments and the answers of the environment drawn from bounded sets.   *)
(***************************************************************************)
AllResponses == {"ok", "e404", "e500", "ctx"}

PlainBytes == {0, 255}

\* every plaintext of at most MaxPlainLen bytes
Plaintexts == UNION {[1..n -> PlainBytes] : n \in 0..MaxPlainLen}

\* recipient keys as SetSecret passes them: the fetched key in a [32]byte
RecipientKeys == {CopyInto(KeySize, KeyBytes(l)) : l \in KeyLens}

ClientValues == {<<>>, SecretValue}

\* the err argument of handleGitHubError: nil ("ok"), an ErrorResponse with
\* status 404 or 500 or without a Response, an error of another type
ErrorValues == {"ok", "e404", "e500", "eNoResp", "ctx"}

\* the resourceType argument of handleGitHubError
ResourceTypes ==
    {"repository_secret", "environment_secret", "repository_variable",
     "environment_variable", "", "deployment"}

\* characters of the secret values explored: "A", "B" and the two-byte U+00E9
Alphabet == {<<65>>, <<66>>, <<195, 169>>}

\* "ABCDEFGH"
EightLetters == <<<<65>>, <<66>>, <<67>>, <<68>>, <<69>>, <<70>>, <<71>>, <<72>>>>

\* "ABCGH"
FiveLetters == <<<<65>>, <<66>>, <<67>>, <<71>>, <<72>>>>

\* the secret values handed to maskSecret, as texts
SecretTexts ==
    UNION {[1..n -> Alphabet] : n \in 0..MaxSecretChars}
        \cup {EightLetters, FiveLetters}

\* the sections Validate is called with: empty, well formed, with an empty
\* key, with an empty value; for the environment sections also an
\* environment without entries and one with the empty name
FlatSections(value) ==
    {EmptyMap, [n \in {"A"} |-> value], [n \in {""} |-> value], [n \in {"A"} |-> <<>>]}

EnvSections(value) ==
    {EmptyMap, [e \in {"prod"} |-> EmptyMap]}
        \cup {[e \in {"prod"} |-> m] : m \in FlatSections(value) \ {EmptyMap}}
        \cup {[e \in {""} |-> [n \in {"A"} |-> value]]}

\* the configurations Validate is called with
ValidateConfigs ==
    [GitHub : [Token : {"", "token"}, Owner : {"", "org"},
               Repos : {<<>>, <<"repo1">>, <<"">>, <<"repo1", "">>}],
     RepositorySecrets : FlatSections(SecretValue),
     EnvironmentSecrets : EnvSections(SecretValue),
     RepositoryVariables : FlatSections(VariableValue),
     EnvironmentVariables : EnvSections(VariableValue)]

IdleConfig ==
    [GitHub |-> [Token |-> "token", Owner |-> "org", Repos |-> <<>>],
     RepositorySecrets |-> EmptyMap, EnvironmentSecrets |-> EmptyMap,
     RepositoryVariables |-> EmptyMap, EnvironmentVariables |-> EmptyMap]

InitClient ==
    /\ cfg = IdleConfig
    /\ flags = [DryRun |-> FALSE, ContinueOnError |-> FALSE]
    /\ ctxCancelled = FALSE
    /\ errorMutex = 0
    /\ errors = <<>>
    /\ pc = <<>>
    /\ cur = <<>>
    /\ repoErrors = <<>>
    /\ trace = <<>>
    /\ calls = [e \in Counted |-> 0]
    /\ faults = 0
    /\ phase = "idle"
    /\ retErr = [failed |-> FALSE, count |-> 0]
    /\ opName = ""
    /\ opArgs = <<>>
    /\ opRes = <<>>
    /\ opReq = <<>>
    /\ store = {}
    /\ runs = 1

CallEncryptSecret ==
    /\ opName = ""
    /\ \E plaintext \in Plaintexts, publicKey \in RecipientKeys, seed \in RandOutcomes :
        /\ opArgs' = [plaintext |-> plaintext, publicKey |-> publicKey, seed |-> seed]
        /\ opRes' = encryptSecret(plaintext, publicKey, seed)
        /\ opReq' = <<>>
    /\ opName' = "encryptSecret"
    /\ UNCHANGED <<dispVars, storeVars>>

\* rand.Reader is a cryptographic generator: it does not yield again the
\* bytes it yielded before (0, its failure, may recur)
FreshRand(used) == RandOutcomes \ (used \ {0})

\* a second call of encryptSecret, with the plaintext and the recipient key
\* of the first
CallEncryptSecretAgain ==
    /\ opName = "encryptSecret"
    /\ \E seed \in FreshRand({opArgs.seed}) :
        /\ opArgs' = [plaintext |-> opArgs.plaintext, publicKey |-> opArgs.publicKey,
                      seed |-> opArgs.seed, seed2 |-> seed]
        /\ opRes' = [first |-> opRes,
                     second |-> encryptSecret(opArgs.plaintext, opArgs.publicKey, seed)]
    /\ opName' = "encryptSecret twice"
    /\ opReq' = <<>>
    /\ UNCHANGED <<dispVars, storeVars>>

CallMaskSecret ==
    /\ opName = ""
    /\ \E text \in SecretTexts :
        /\ opArgs' = [text |-> text, secret |-> Utf8(text)]
        /\ opRes' = [out |-> maskSecret(Utf8(text))]
    /\ opName' = "maskSecret"
    /\ opReq' = <<>>
    /\ UNCHANGED <<dispVars, storeVars>>

CallGetPublicKey ==
    /\ opName = ""
    /\ \E repo \in RepoNames, in \in [pk : AllResponses] :
        /\ opArgs' = [owner |-> "org", repo |-> repo, environment |-> "", in |-> in]
        /\ opRes' = GetPublicKey("org", repo, in)
        /\ opReq' = Requests(GetPublicKey("org", repo, in), "org", repo, "", [Name |-> ""])
    /\ opName' = "GetPublicKey"
    /\ UNCHANGED <<dispVars, storeVars>>

CallGetEnvironmentPublicKey ==
    /\ opName = ""
    /\ \E repo \in RepoNames, in \in [id1 : AllResponses, pk : AllResponses] :
        /\ opArgs' = [owner |-> "org", repo |-> repo, environment |-> "prod", in |-> in]
        /\ opRes' = GetEnvironmentPublicKey("org", repo, "prod", in)
        /\ opReq' = Requests(GetEnvironmentPublicKey("org", repo, "prod", in),
                             "org", repo, "prod", [Name |-> ""])
    /\ opName' = "GetEnvironmentPublicKey"
    /\ UNCHANGED <<dispVars, storeVars>>

CallHandleGitHubError ==
    /\ opName = ""
    /\ \E err \in ErrorValues, repo \in RepoNames, environment \in {"", "prod"},
          resourceType \in ResourceTypes, name \in {"", "A"} :
        /\ opArgs' = [err |-> err, owner |-> "org", repo |-> repo,
                      environment |-> environment, resourceType |-> resourceType,
                      name |-> name]
        /\ opRes' = [err |-> handleGitHubError(err, "org", repo, environment,
                                               resourceType, name)]
    /\ opName' = "handleGitHubError"
    /\ opReq' = <<>>
    /\ UNCHANGED <<dispVars, storeVars>>

CallValidate ==
    /\ opName = ""
    /\ \E c \in ValidateConfigs :
        /\ opArgs' = [c |-> c]
        /\ opRes' = [err |-> Validate(c)]
    /\ opName' = "Validate"
    /\ opReq' = <<>>
    /\ UNCHANGED <<dispVars, storeVars>>

\* the pieces of the texts ParseRepos is called with
TextPieces == {",", " ", "\t", "repo1", "repo2"}

ParseTexts == UNION {[1..n -> TextPieces] : n \in 0..MaxTextLen}

CallParseRepos ==
    /\ opName = ""
    /\ \E reposStr \in ParseTexts :
        /\ opArgs' = [reposStr |-> reposStr]
        /\ opRes' = ParseRepos(reposStr)
    /\ opName' = "ParseRepos"
    /\ opReq' = <<>>
    /\ UNCHANGED <<dispVars, storeVars>>

\* the repos argument of ApplyOverrides: nil, an empty list, lists of names
OverrideRepos == {<<>>, <<"repo3">>, <<"repo3", "repo1">>}

CallApplyOverrides ==
    /\ opName = ""
    /\ \E c \in CandidateConfigs, token \in {"", "new-token"},
          owner \in {"", "new-owner"}, repos \in OverrideRepos :
        /\ opArgs' = [c |-> c, token |-> token, owner |-> owner, repos |-> repos]
        /\ opRes' = [c |-> ApplyOverrides(c, token, owner, repos)]
    /\ opName' = "ApplyOverrides"
    /\ opReq' = <<>>
    /\ UNCHANGED <<dispVars, storeVars>>

CallLoadConfig ==
    /\ opName = ""
    /\ \E file \in RunFiles, envToken \in {"", "envtoken"} :
        /\ opArgs' = [file |-> file, envToken |-> envToken]
        /\ opRes' = LoadConfig(file, envToken)
    /\ opName' = "LoadConfig"
    /\ opReq' = <<>>
    /\ UNCHANGED <<dispVars, storeVars>>

CallSetSecret ==
    /\ opName = ""
    /\ \E value \in ClientValues,
          in \in SecretInputs("repository_secret", AllResponses, TRUE),
          keyId \in KeyIds :
        /\ opArgs' = [owner |-> "org", repo |-> "repo1", environment |-> "",
                      name |-> "A", value |-> value, in |-> in, keyId |-> keyId]
        /\ opRes' = SetSecret("org", "repo1", "A", value, in)
        /\ opReq' = Requests(SetSecret("org", "repo1", "A", value, in),
                             "org", "repo1", "", SecretBody("A", value, in, keyId))
    /\ opName' = "SetSecret"
    /\ UNCHANGED <<dispVars, storeVars>>

CallSetEnvironmentSecret ==
    /\ opName = ""
    /\ \E value \in ClientValues,
          in \in SecretInputs("environment_secret", AllResponses, TRUE),
          keyId \in KeyIds :
        /\ opArgs' = [owner |-> "org", repo |-> "repo1", environment |-> "prod",
                      name |-> "A", value |-> value, in |-> in, keyId |-> keyId]
        /\ opRes' = SetEnvironmentSecret("org", "repo1", "prod", "A", value, in)
        /\ opReq' = Requests(SetEnvironmentSecret("org", "repo1", "prod", "A", value, in),
                             "org", "repo1", "prod", SecretBody("A", value, in, keyId))
    /\ opName' = "SetEnvironmentSecret"
    /\ UNCHANGED <<dispVars, storeVars>>

CallSetRepositoryVariable ==
    /\ opName = ""
    /\ \E in \in VariableInputs("repository_variable", AllResponses) :
        /\ opArgs' = [owner |-> "org", repo |-> "repo1", environment |-> "",
                      name |-> "V", value |-> VariableValue, in |-> in]
        /\ opRes' = SetRepositoryVariable("org", "repo1", "V", VariableValue, in)
        /\ opReq' = Requests(SetRepositoryVariable("org", "repo1", "V", VariableValue, in),
                             "org", "repo1", "", ActionsVariable("V", VariableValue))
    /\ opName' = "SetRepositoryVariable"
    /\ UNCHANGED <<dispVars, storeVars>>

CallSetEnvironmentVariable ==
    /\ opName = ""
    /\ \E in \in VariableInputs("environment_variable", AllResponses) :
        /\ opArgs' = [owner |-> "org", repo |-> "repo1", environment |-> "prod",
                      name |-> "V", value |-> VariableValue, in |-> in]
        /\ opRes' = SetEnvironmentVariable("org", "repo1", "prod", "V", VariableValue, in)
        /\ opReq' = Requests(SetEnvironmentVariable("org", "repo1", "prod", "V",
                                                    VariableValue, in),
                             "org", "repo1", "prod", ActionsVariable("V", VariableValue))
    /\ opName' = "SetEnvironmentVariable"
    /\ UNCHANGED <<dispVars, storeVars>>

NextClient ==
    \/ CallEncryptSecret
    \/ CallEncryptSecretAgain
    \/ CallMaskSecret
    \/ CallGetPublicKey
    \/ CallGetEnvironmentPublicKey
    \/ CallHandleGitHubError
    \/ CallValidate
    \/ CallParseRepos
    \/ CallApplyOverrides
    \/ CallLoadConfig
    \/ CallSetSecret
    \/ CallSetEnvironmentSecret
    \/ CallSetRepositoryVariable
    \/ CallSetEnvironmentVariable

SpecClient == InitClient /\ [][NextClient]_vars

(***************************************************************************)
(* The command: run (cmd/easygh/main.go) from the flags, the configuration *)
(* file and the environment to the goroutines of execute.                  *)
(***************************************************************************)
\* the values of --repo
RepoTexts ==
    {<<>>, <<"repo2">>, <<" ", "repo1", ",", ",", "repo2", "\t">>, <<",", " ">>}

\* the flags, the file and the environment of one invocation
RunInputs ==
    [ConfigPath : RunFiles,
     EnvToken : {"", "envtoken"},
     Token : {"", "flagtoken"},
     Owner : {"", "org2"},
     Repos : RepoTexts,
     ShowVersion : BOOLEAN]

InitRun ==
    /\ cfg = ZeroConfig
    /\ flags \in [DryRun : BOOLEAN, ContinueOnError : BOOLEAN]
    /\ ctxCancelled = FALSE
    /\ errorMutex = 0
    /\ errors = <<>>
    /\ pc = <<>>
    /\ cur = <<>>
    /\ repoErrors = <<>>
    /\ trace = <<>>
    /\ calls = [e \in Counted |-> 0]
    /\ faults = 0
    /\ phase = "load"
    /\ retErr = [failed |-> FALSE, count |-> 0]
    /\ opName = "run"
    /\ opArgs \in RunInputs
    /\ opRes = [err |-> "nil", cause |-> ""]
    /\ opReq = <<>>
    /\ store = {}
    /\ runs = 1

\* run: the version is shown, or the configuration is loaded
RunLoadConfig ==
    /\ phase = "load"
    /\ IF opArgs.ShowVersion
       THEN /\ phase' = "version"
            /\ UNCHANGED <<cfg, opRes, retErr>>
       ELSE LET loaded == LoadConfig(opArgs.ConfigPath, opArgs.EnvToken)
            IN  IF loaded.err # "nil"
                THEN /\ phase' = "aborted"
                     /\ opRes' = [err |-> loaded.err, cause |-> loaded.cause]
                     /\ retErr' = [failed |-> TRUE, count |-> 0]
                     /\ cfg' = cfg
                ELSE /\ phase' = "loaded"
                     /\ cfg' = loaded.cfg
                     /\ UNCHANGED <<opRes, retErr>>
    /\ UNCHANGED <<flags, ctxCancelled, errorMutex, errors, pc, cur, repoErrors,
                   trace, calls, faults, opName, opArgs, opReq, storeVars>>

\* run: the overrides are applied and the configuration validated again;
\* then execute starts one goroutine per repository
RunApplyOverrides ==
    /\ phase = "loaded"
    /\ LET repos == ParseRepos(opArgs.Repos).repos
           c == ApplyOverrides(cfg, opArgs.Token, opArgs.Owner, repos)
           ws == 1..Len(c.GitHub.Repos)
       IN  /\ cfg' = c
           /\ IF Validate(c) # "nil"
              THEN /\ phase' = "aborted"
                   /\ opRes' = [err |-> Validate(c), cause |-> ""]
                   /\ retErr' = [failed |-> TRUE, count |-> 0]
                   /\ UNCHANGED <<pc, cur, repoErrors, trace>>
              ELSE /\ phase' = "running"
                   /\ pc' = [w \in ws |-> "start"]
                   /\ cur' = [w \in ws |-> NoUnit]
                   /\ repoErrors' = [w \in ws |-> <<>>]
                   /\ trace' = [w \in ws |-> <<>>]
                   /\ UNCHANGED <<opRes, retErr>>
    /\ UNCHANGED <<flags, ctxCancelled, errorMutex, errors, calls, faults,
                   opName, opArgs, opReq, storeVars>>

NextRun ==
    \/ RunLoadConfig
    \/ RunApplyOverrides
    \/ Next

SpecRun == InitRun /\ [][NextRun]_vars

(***************************************************************************)
(* The dispatcher against a remote that answers by the content of its      *)
(* store and never fails: an update succeeds on an entry the store holds   *)
(* and answers 404 otherwise, a create succeeds on an entry the store does *)
(* not hold and answers 409 otherwise, a secret is created or updated, a   *)
(* probe finds what the store holds. The update and the create of a        *)
(* variable are two calls, with the calls of other goroutines in between.  *)
(* The run is made MaxRuns times against the same store.                   *)
(***************************************************************************)
\* the entry of the store unit u of goroutine w addresses
StoreKey(w, u) ==
    [repo |-> cfg.GitHub.Repos[w], kind |-> u.kind, env |-> u.env, name |-> u.name]

Holds(key) == \E e \in store : e.key = key

Put(key, value) == {e \in store : e.key # key} \cup {[key |-> key, value |-> value]}

\* "old": a value written before the first run
StaleValue == <<111, 108, 100>>

\* the store before the first run: empty, or holding every entry of the
\* catalog with another value
InitialStores(c) ==
    {{},
     {[key |-> [repo |-> c.GitHub.Repos[w], kind |-> u.kind, env |-> u.env,
                name |-> u.name],
       value |-> StaleValue] : w \in 1..Len(c.GitHub.Repos), u \in Units(c)}}

\* the answers to a set operation on a secret when nothing fails
FaultlessSecret ==
    [id1 |-> "ok", pk |-> "ok", b64ok |-> TRUE, keyLen |-> KeySize, seed |-> 1,
     id2 |-> "ok", wr |-> "ok"]

\* the result and the log line of a unit, as in ProcessUnit
Finish(w, r) ==
    LET u == cur[w]
        line == IF flags.DryRun
                THEN (IF r.err # NilErr THEN "would_create" ELSE "would_update")
                ELSE (IF r.err # NilErr THEN "failed" ELSE "ok")
        shown == LogValue(flags.DryRun, u, UnitValue(cfg, u))
    IN  /\ trace' = [trace EXCEPT ![w] =
                        Append(@, [unit |-> u, res |-> line, shown |-> shown])]
        /\ repoErrors' =
             IF ~flags.DryRun /\ r.err # NilErr
             THEN [repoErrors EXCEPT ![w] =
                     Append(@, UnitError(cfg.GitHub.Owner, cfg.GitHub.Repos[w], u, r.err))]
             ELSE repoErrors
        /\ calls' = [e \in Counted |-> calls[e] + Issued(r, e)]
        /\ cur' = [cur EXCEPT ![w] = NoUnit]
        /\ pc' = [pc EXCEPT ![w] = "loop"]

\* dry run: the probe of the current unit
StoreProbe(w) ==
    /\ phase = "running" /\ pc[w] = "call" /\ flags.DryRun
    /\ LET u == cur[w]
           answer == IF Holds(StoreKey(w, u)) THEN "ok" ELSE "e404"
       IN  \E get \in {answer} \cup (IF ctxCancelled THEN {"ctx"} ELSE {}) :
               Finish(w, ProbeCall(cfg.GitHub.Owner, cfg.GitHub.Repos[w], u,
                                   [id1 |-> IF get = "ctx" THEN "ctx" ELSE "ok",
                                    get |-> get]))
    /\ UNCHANGED <<cfg, flags, ctxCancelled, errorMutex, errors, faults, phase,
                   retErr, opVars, storeVars>>

\* SetSecret / SetEnvironmentSecret for the current unit
StoreSetSecret(w) ==
    /\ phase = "running" /\ pc[w] = "call" /\ ~flags.DryRun
    /\ cur[w].kind \in {"repository_secret", "environment_secret"}
    /\ LET u == cur[w]
           owner == cfg.GitHub.Owner
           repo == cfg.GitHub.Repos[w]
       IN  \/ /\ Finish(w, SetCall(owner, repo, u, UnitValue(cfg, u), FaultlessSecret))
              /\ store' = Put(StoreKey(w, u), UnitValue(cfg, u))
           \/ /\ ctxCancelled
              /\ \E in \in SecretInputs(u.kind, {"ctx"}, FALSE) :
                    Finish(w, SetCall(owner, repo, u, UnitValue(cfg, u), in))
              /\ store' = store
    /\ UNCHANGED <<cfg, flags, ctxCancelled, errorMutex, errors, faults, phase,
                   retErr, opVars, runs>>

\* SetRepositoryVariable / SetEnvironmentVariable for the current unit, up
\* to the answer to the update
StoreUpdateVariable(w) ==
    /\ phase = "running" /\ pc[w] = "call" /\ ~flags.DryRun
    /\ cur[w].kind \in {"repository_variable", "environment_variable"}
    /\ LET u == cur[w]
           owner == cfg.GitHub.Owner
           repo == cfg.GitHub.Repos[w]
       IN  \/ /\ Holds(StoreKey(w, u))
              /\ Finish(w, SetCall(owner, repo, u, UnitValue(cfg, u),
                                   [id1 |-> "ok", up |-> "ok", cr |-> "ok"]))
              /\ store' = Put(StoreKey(w, u), UnitValue(cfg, u))
           \/ /\ ~Holds(StoreKey(w, u))
              /\ pc' = [pc EXCEPT ![w] = "create"]
              /\ UNCHANGED <<trace, repoErrors, calls, cur, store>>
           \/ /\ ctxCancelled
              /\ \E in \in VariableInputs(u.kind, {"ctx"}) :
                    Finish(w, SetCall(owner, repo, u, UnitValue(cfg, u), in))
              /\ store' = store
    /\ UNCHANGED <<cfg, flags, ctxCancelled, errorMutex, errors, faults, phase,
                   retErr, opVars, runs>>

\* the same call from the create on, the update having answered 404
StoreCreateVariable(w) ==
    /\ phase = "running" /\ pc[w] = "create"
    /\ LET u == cur[w]
           owner == cfg.GitHub.Owner
           repo == cfg.GitHub.Repos[w]
           answer == IF Holds(StoreKey(w, u)) THEN "e409" ELSE "ok"
       IN  \E cr \in {answer} \cup (IF ctxCancelled THEN {"ctx"} ELSE {}) :
               /\ Finish(w, SetCall(owner, repo, u, UnitValue(cfg, u),
                                    [id1 |-> "ok", up |-> "e404", cr |-> cr]))
               /\ store' = IF cr = "ok" THEN Put(StoreKey(w, u), UnitValue(cfg, u))
                           ELSE store
    /\ UNCHANGED <<cfg, flags, ctxCancelled, errorMutex, errors, faults, phase,
                   retErr, opVars, runs>>

\* the command is run again with the same configuration and flags
RunAgain ==
    /\ phase = "completed"
    /\ runs < MaxRuns
    /\ runs' = runs + 1
    /\ phase' = "running"
    /\ ctxCancelled' = FALSE
    /\ errors' = <<>>
    /\ pc' = [w \in Workers |-> "start"]
    /\ cur' = [w \in Workers |-> NoUnit]
    /\ repoErrors' = [w \in Workers |-> <<>>]
    /\ trace' = [w \in Workers |-> <<>>]
    /\ calls' = [e \in Counted |-> 0]
    /\ retErr' = [failed |-> FALSE, count |-> 0]
    /\ UNCHANGED <<cfg, flags, errorMutex, faults, opVars, store>>

InitStore ==
    /\ cfg \in {c \in CandidateConfigs : Validate(c) = "nil"}
    /\ flags \in [DryRun : BOOLEAN, ContinueOnError : BOOLEAN]
    /\ ctxCancelled = FALSE
    /\ errorMutex = 0
    /\ errors = <<>>
    /\ pc = [w \in Workers |-> "start"]
    /\ cur = [w \in Workers |-> NoUnit]
    /\ repoErrors = [w \in Workers |-> <<>>]
    /\ trace = [w \in Workers |-> <<>>]
    /\ calls = [e \in Counted |-> 0]
    /\ faults = 0
    /\ phase = "running"
    /\ retErr = [failed |-> FALSE, count |-> 0]
    /\ opName = ""
    /\ opArgs = <<>>
    /\ opRes = <<>>
    /\ opReq = <<>>
    /\ store \in InitialStores(cfg)
    /\ runs = 1

NextStore ==
    \/ \E w \in Workers : Start(w)
    \/ \E w \in Workers : Checkpoint(w)
    \/ \E w \in Workers : StoreProbe(w)
    \/ \E w \in Workers : StoreSetSecret(w)
    \/ \E w \in Workers : StoreUpdateVariable(w)
    \/ \E w \in Workers : StoreCreateVariable(w)
    \/ \E w \in Workers : Lock(w)
    \/ \E w \in Workers : AppendErrors(w)
    \/ \E w \in Workers : Cancel(w)
    \/ Report
    \/ RunAgain

SpecStore == InitStore /\ [][NextStore]_vars

(***************************************************************************)
(* Both together: a run of the dispatcher, or one call of a client         *)
(* function.                                                               *)
(***************************************************************************)
InitAll == Init \/ InitClient

NextAll == Next \/ (phase = "idle" /\ NextClient)

SpecAll == InitAll /\ [][NextAll]_vars

(***************************************************************************)
(* Properties.                                                             *)
(***************************************************************************)
Range(seq) == {seq[i] : i \in 1..Len(seq)}

CountSeq(seq, x) == Cardinality({i \in 1..Len(seq) : seq[i] = x})

RECURSIVE SumUpTo(_, _)
SumUpTo(f, n) == IF n = 0 THEN 0 ELSE f[n] + SumUpTo(f, n - 1)

\* sum of f[w] over the goroutines
SumWorkers(f) == SumUpTo(f, Len(cfg.GitHub.Repos))

\* positions in w's log of the units reported as failed
FailedAt(w) == {i \in 1..Len(trace[w]) : trace[w][i].res = "failed"}

\* the k-th smallest element of a set of numbers
Nth(S, k) == CHOOSE i \in S : Cardinality({j \in S : j <= i}) = k

\* the error of a call that the cancelled context ended
IsCtxError(e) == e.cause.Err = "ctx"

\* units the remote store (or a local fault) failed, over all goroutines
StoreFailures ==
    SumWorkers([w \in Workers |->
        Cardinality({i \in 1..Len(repoErrors[w]) : ~IsCtxError(repoErrors[w][i])})])

FailedUnits == SumWorkers([w \in Workers |-> Cardinality(FailedAt(w))])

TotalRepoErrors == SumWorkers([w \in Workers |-> Len(repoErrors[w])])

\* no repository is named twice in the repo list
DistinctRepos ==
    \A v \in Workers : \A w \in Workers :
        v # w => cfg.GitHub.Repos[v] # cfg.GitHub.Repos[w]

\* C1 (as claimed): with continue_on_error=false, once a unit of a target is
\* reported as failed, no later unit of that target is attempted or reported
\* as successful in that run.
C1_NoUnitAfterFailure ==
    (~flags.ContinueOnError /\ ~flags.DryRun) =>
        \A w \in Workers : \A i \in FailedAt(w) :
            i = Len(trace[w]) /\ pc[w] # "call"

\* C2 (as claimed): with continue_on_error=false, when the remote store fails
\* exactly one unit, the final run result holds exactly one error.
C2_ExactlyOneError ==
    (phase = "completed" /\ ~flags.ContinueOnError /\ ~flags.DryRun
        /\ DistinctRepos /\ StoreFailures = 1) => Len(errors) = 1

\* C3: with continue_on_error=true cancellation is never requested during the
\* run, every goroutine processes every unit of the catalog, and when exactly
\* one unit failed the run result holds exactly one error.
C3_ContinueOnError ==
    flags.ContinueOnError =>
        /\ phase = "running" => ~ctxCancelled
        /\ \A w \in Workers : pc[w] # "cancel"
        /\ phase = "completed" =>
            /\ \A w \in Workers :
                /\ Len(trace[w]) = Cardinality(Units(cfg))
                /\ {trace[w][i].unit : i \in 1..Len(trace[w])} = Units(cfg)
            /\ (~flags.DryRun /\ FailedUnits = 1) => Len(errors) = 1

C3_Witness ==
    /\ phase = "completed" /\ flags.ContinueOnError /\ ~flags.DryRun
    /\ Len(cfg.GitHub.Repos) = 2 /\ Cardinality(Units(cfg)) = 2
    /\ FailedUnits = 1 /\ Len(errors) = 1
    /\ \A w \in Workers : Len(trace[w]) = 2

\* C4: the run returns failure iff the aggregated error set is non-empty
\* when all goroutines have returned, whatever succeeded; the reported count
\* is the number of error records collected across all targets.
C4_RunResult ==
    phase = "completed" =>
        /\ retErr.failed <=> Len(errors) > 0
        /\ retErr.failed => retErr.count = Len(errors) /\ retErr.count = TotalRepoErrors

C4_Witness ==
    /\ phase = "completed" /\ retErr.failed /\ retErr.count = 2
    /\ \E w \in Workers : \E i \in 1..Len(trace[w]) : trace[w][i].res = "ok"

C6_NoNewUnitOnceCancelled ==
    [][(phase = "running" /\ ctxCancelled) =>
        \A w \in Workers :
            /\ Begun(w)' = Begun(w)
            /\ (pc[w] = "start" /\ pc'[w] # "start") => pc'[w] = "done"
            /\ (pc[w] = "loop" /\ pc'[w] # "loop") =>
                    /\ pc'[w] = (IF repoErrors[w] # <<>> THEN "lock" ELSE "done")
                    /\ repoErrors'[w] = repoErrors[w]]_vars

C6_Witness ==
    /\ phase = "running" /\ ctxCancelled
    /\ \E w \in Workers :
        /\ pc[w] = "done"
        /\ trace[w] # <<>>
        /\ Len(trace[w]) < Cardinality(Units(cfg))

\* C7: in a non-dry run every unit whose set operation returned an error has
\* exactly one error record (owner/repo, scope kind, environment, name, the
\* cause), and at the end the aggregated errors are exactly these records.
C7_ErrorsRecorded ==
    ~flags.DryRun =>
        /\ \A w \in Workers :
            /\ Len(repoErrors[w]) = Cardinality(FailedAt(w))
            /\ \A k \in 1..Len(repoErrors[w]) :
                LET u == trace[w][Nth(FailedAt(w), k)].unit
                    e == repoErrors[w][k]
                IN  /\ e.owner = cfg.GitHub.Owner /\ e.repo = cfg.GitHub.Repos[w]
                    /\ e.kind = u.kind /\ e.env = u.env /\ e.name = u.name
                    /\ e.cause # NilErr
        /\ phase = "completed" =>
            /\ Len(errors) = FailedUnits
            /\ \A x \in Range(errors) \cup UNION {Range(repoErrors[w]) : w \in Workers} :
                CountSeq(errors, x) =
                    SumWorkers([w \in Workers |-> CountSeq(repoErrors[w], x)])

C7_Witness ==
    /\ phase = "completed" /\ ~flags.DryRun
    /\ \E v \in Workers : \E w \in Workers :
        v # w /\ repoErrors[v] # <<>> /\ repoErrors[w] # <<>>

\* C8 (as claimed): within one run the set operation of each (target, scope,
\* environment, name) unit is invoked at most once, for every repo list that
\* Validate accepts.
C8_AtMostOnceWrite ==
    ~flags.DryRun =>
        \A v \in Workers : \A w \in Workers :
            (v # w /\ cfg.GitHub.Repos[v] = cfg.GitHub.Repos[w]) =>
                {trace[v][i].unit : i \in 1..Len(trace[v])}
                    \cap {trace[w][i].unit : i \in 1..Len(trace[w])} = {}

\* C9 (as claimed): a fetched public key whose decoded length is not 32 is
\* rejected with an error before any cryptographic operation: no ephemeral
\* key is generated, nothing is encrypted, no write is issued.
C9_RejectsBadKeyLength ==
    (/\ opName \in {"SetSecret", "SetEnvironmentSecret"}
     /\ opArgs.in.id1 = "ok" /\ opArgs.in.pk = "ok" /\ opArgs.in.b64ok
     /\ opArgs.in.keyLen # KeySize) =>
        /\ opRes.err # NilErr
        /\ ~opRes.keyGen /\ opRes.encLen = -1 /\ ~opRes.wrote

\* C10: a successful encryptSecret on a plaintext of length L returns
\* 32 + L + 16 bytes: the 32-byte ephemeral public key, then the L + 16 bytes
\* of authenticated ciphertext.
C10_OutputLayout ==
    /\ (opName = "encryptSecret" /\ opRes.err = "nil") =>
        LET L == Len(opArgs.plaintext)
            kp == GenerateKey(opArgs.seed)
            sealed == boxSeal(opArgs.plaintext, deriveNonce(kp.pub, opArgs.publicKey),
                              opArgs.publicKey, kp.priv)
        IN  /\ Len(opRes.out) = KeySize + L + Overhead
            /\ \A i \in 1..KeySize : opRes.out[i] = kp.pub[i]
            /\ Len(sealed) = L + Overhead
            /\ \A i \in 1..(L + Overhead) : opRes.out[KeySize + i] = sealed[i]
    /\ (opName \in {"SetSecret", "SetEnvironmentSecret"} /\ opRes.encLen # -1) =>
        opRes.encLen = KeySize + Len(opArgs.value) + Overhead

C10_Witness ==
    /\ opName = "encryptSecret"
    /\ opArgs.plaintext = <<>>
    /\ opRes.err = "nil"
    /\ Len(opRes.out) = KeySize + Overhead

\* some byte of the key is not zero
NotAllZero(key) == \E i \in 1..Len(key) : key[i] # 0

\* C11: two encryptSecret calls with the same plaintext and the same
\* recipient key return different outputs, which start with different
\* ephemeral public keys; the first 32 bytes of an output are never all zero.
C11_FreshEphemeralKey ==
    /\ (opName = "encryptSecret" /\ opRes.err = "nil") =>
            /\ Len(opRes.out) >= KeySize
            /\ NotAllZero(SubSeq(opRes.out, 1, KeySize))
    /\ (opName = "encryptSecret twice" /\ opRes.first.err = "nil"
            /\ opRes.second.err = "nil") =>
            /\ opRes.first.out # opRes.second.out
            /\ SubSeq(opRes.first.out, 1, KeySize) # SubSeq(opRes.second.out, 1, KeySize)
            /\ NotAllZero(SubSeq(opRes.first.out, 1, KeySize))
            /\ NotAllZero(SubSeq(opRes.second.out, 1, KeySize))

C11_Witness ==
    /\ opName = "encryptSecret twice"
    /\ opRes.first.err = "nil" /\ opRes.second.err = "nil"
    /\ Len(opArgs.plaintext) = 2
    /\ Len(opRes.first.out) = Len(opRes.second.out)
    /\ opRes.first.out # opRes.second.out

\* C12: the nonce encryptSecret hands to box.Seal is the 24-byte BLAKE2b
\* digest of ephemeralPK || recipientPK, and it differs from the first 24
\* bytes of the 64-byte digest of the same input.
C12_NonceIsNative24 ==
    (opName = "encryptSecret" /\ opRes.err = "nil") =>
        LET ephemeralPK == SubSeq(opRes.out, 1, KeySize)
            nonceInput == ephemeralPK \o opArgs.publicKey
        IN  /\ Len(nonceInput) = Size512
            /\ Len(opRes.nonce) = NonceSize
            /\ opRes.nonce = Blake2b(NonceSize, nonceInput)
            /\ opRes.nonce # SubSeq(Blake2b(Size512, nonceInput), 1, NonceSize)

C12_Witness ==
    /\ opName = "encryptSecret" /\ opRes.err = "nil"
    /\ opArgs.seed = 2
    /\ Len(opArgs.plaintext) = 1
    /\ Len(opRes.nonce) = NonceSize

\* C13: the nonce is a function of the pair (ephemeral public key, recipient
\* public key) alone, taken in that order, and is not part of the output:
\* the output is the ephemeral public key followed by the sealed ciphertext
\* and nothing else, and the nonce recomputed from the first 32 bytes of the
\* output and the recipient's own public key is the nonce that was used.
C13_NonceRederivable ==
    (opName = "encryptSecret" /\ opRes.err = "nil") =>
        LET ephemeralPK == SubSeq(opRes.out, 1, KeySize)
            sealed == SubSeq(opRes.out, KeySize + 1, Len(opRes.out))
            recomputed == Blake2b(NonceSize, ephemeralPK \o opArgs.publicKey)
        IN  /\ recomputed = opRes.nonce
            /\ ephemeralPK # opArgs.publicKey =>
                    opRes.nonce # Blake2b(NonceSize, opArgs.publicKey \o ephemeralPK)
            /\ ephemeralPK = GenerateKey(opArgs.seed).pub
            /\ sealed = boxSeal(opArgs.plaintext, recomputed, opArgs.publicKey,
                                GenerateKey(opArgs.seed).priv)
            /\ Len(opRes.out) = KeySize + Len(opArgs.plaintext) + Overhead

C13_Witness ==
    /\ opName = "encryptSecret" /\ opRes.err = "nil"
    /\ Len(opArgs.plaintext) = MaxPlainLen
    /\ SubSeq(opRes.out, 1, KeySize) # opArgs.publicKey
    /\ opRes.nonce = Blake2b(NonceSize, SubSeq(opRes.out, 1, KeySize) \o opArgs.publicKey)

\* C14 (as claimed): maskSecret renders a value of at most 4 characters (the
\* empty value included) as "****" and a longer value as its first two
\* characters, "****", and its last two characters.
C14_MaskSecret ==
    opName = "maskSecret" =>
        LET n == Len(opArgs.text)
        IN  opRes.out =
                IF n <= 4 THEN Stars
                ELSE Utf8(SubSeq(opArgs.text, 1, 2)) \o Stars
                        \o Utf8(SubSeq(opArgs.text, n - 1, n))

\* C15: every log line the dispatcher emits for a secret unit carries the
\* secret value only as maskSecret returns it, never the value itself, and
\* every line for a variable unit that carries the value carries it
\* unmodified; the dry-run previews carry a value, the other lines none.
C15_SecretsMaskedVariablesShown ==
    \A w \in Workers : \A i \in 1..Len(trace[w]) :
        LET line == trace[w][i]
            value == UnitValue(cfg, line.unit)
        IN  /\ line.shown.logged = flags.DryRun
            /\ ~line.shown.logged => line.shown.value = <<>>
            /\ (line.shown.logged
                    /\ line.unit.kind \in {"repository_secret", "environment_secret"}) =>
                    /\ line.shown.value # value
                    /\ line.shown.value =
                            IF Len(value) <= 4 THEN Stars
                            ELSE SubSeq(value, 1, 2) \o Stars
                                    \o SubSeq(value, Len(value) - 1, Len(value))
            /\ (line.shown.logged
                    /\ line.unit.kind \in {"repository_variable", "environment_variable"}) =>
                    line.shown.value = value

C15_Witness ==
    /\ phase = "completed" /\ flags.DryRun
    /\ \E w \in Workers :
        /\ \E i \in 1..Len(trace[w]) :
                /\ trace[w][i].unit.kind = "environment_secret"
                /\ trace[w][i].shown.value = <<115, 51, 42, 42, 42, 42, 51, 116>>
        /\ \E i \in 1..Len(trace[w]) :
                /\ trace[w][i].unit.kind = "repository_secret"
                /\ trace[w][i].shown.value = Stars
        /\ \E i \in 1..Len(trace[w]) :
                /\ trace[w][i].unit.kind = "repository_variable"
                /\ trace[w][i].shown.value = VariableValue

\* positions of the calls of endpoint e among the calls of the last operation
CallsOf(e) == {i \in 1..Len(opRes.api) : opRes.api[i] = e}

\* the last operation called e and the call failed
FailedCall(e) == \E i \in CallsOf(e) : opRes.resps[i] # "ok"

\* the last operation called e and the call succeeded
GoodCall(e) == \E i \in CallsOf(e) : opRes.resps[i] = "ok"

\* the upsert of a variable by the calls update and create: update is issued
\* once and before any create; create is issued iff update failed; the
\* operation succeeds iff one of the two succeeded, and fails with the
\* classified error of the create call
UpsertBy(update, create, kind) ==
    /\ Cardinality(CallsOf(update)) = 1
    /\ Cardinality(CallsOf(create)) <= 1
    /\ \A u \in CallsOf(update) : \A c \in CallsOf(create) : u < c
    /\ CallsOf(create) # {} <=> FailedCall(update)
    /\ opRes.err = NilErr <=> (GoodCall(update) \/ GoodCall(create))
    /\ opRes.err # NilErr =>
            /\ FailedCall(update) /\ FailedCall(create)
            /\ opRes.err = handleGitHubError(opArgs.in.cr, opArgs.owner, opArgs.repo,
                                             opArgs.environment, kind, opArgs.name)

\* the last operation fetched no key and encrypted nothing
NoKeyNoEncryption ==
    /\ \A e \in KeyEndpoints : CallsOf(e) = {}
    /\ ~opRes.keyGen /\ opRes.encLen = -1 /\ opRes.keyLen = -1

\* C16 (as claimed): SetRepositoryVariable and SetEnvironmentVariable issue
\* an update first and a create iff the update failed; they succeed iff the
\* update or the create succeeds and fail, with the classified error of the
\* create call, only when both fail; no key is fetched, nothing encrypted.
C16_VariableUpsert ==
    /\ opName = "SetRepositoryVariable" =>
            /\ UpsertBy("UpdateRepoVariable", "CreateRepoVariable", "repository_variable")
            /\ NoKeyNoEncryption
    /\ opName = "SetEnvironmentVariable" =>
            /\ UpsertBy("UpdateEnvVariable", "CreateEnvVariable", "environment_variable")
            /\ NoKeyNoEncryption

\* C16 (amended): as claimed for SetRepositoryVariable, and for
\* SetEnvironmentVariable once its repository-ID lookup, which it issues
\* first, has succeeded; when that lookup fails, SetEnvironmentVariable
\* issues neither update nor create and fails with the lookup's classified
\* error.
C16_VariableUpsertAfterLookup ==
    /\ opName = "SetRepositoryVariable" =>
            /\ UpsertBy("UpdateRepoVariable", "CreateRepoVariable", "repository_variable")
            /\ CallsOf("Repositories.Get") = {}
            /\ NoKeyNoEncryption
    /\ opName = "SetEnvironmentVariable" =>
            /\ CallsOf("Repositories.Get") = {1}
            /\ NoKeyNoEncryption
            /\ IF opRes.resps[1] = "ok"
               THEN UpsertBy("UpdateEnvVariable", "CreateEnvVariable", "environment_variable")
               ELSE /\ Len(opRes.api) = 1
                    /\ ~opRes.wrote
                    /\ opRes.err # NilErr
                    /\ opRes.err = handleGitHubError(opArgs.in.id1, opArgs.owner,
                                                     opArgs.repo, "", "", "")

C16_Witness ==
    /\ opName = "SetEnvironmentVariable"
    /\ opRes.api = <<"Repositories.Get", "UpdateEnvVariable", "CreateEnvVariable">>
    /\ opRes.resps = <<"ok", "e404", "ok">>
    /\ opRes.err = NilErr

\* the bytes a base64 text stands for, from digit i on
RECURSIVE DecodeFrom(_, _)
DecodeFrom(t, i) ==
    IF i > Len(t) THEN <<>>
    ELSE LET c == IF t[i + 2] = 64 THEN 0 ELSE t[i + 2]
             d == IF t[i + 3] = 64 THEN 0 ELSE t[i + 3]
             b1 == t[i] * 4 + t[i + 1] \div 16
             b2 == (t[i + 1] % 16) * 16 + c \div 4
             b3 == (c % 4) * 64 + d
         IN  (IF t[i + 2] = 64 THEN <<b1>>
              ELSE IF t[i + 3] = 64 THEN <<b1, b2>>
              ELSE <<b1, b2, b3>>) \o DecodeFrom(t, i + 4)

\* t is a base64 text: groups of four digits, padded at the very end only
IsBase64(t) ==
    /\ Len(t) % 4 = 0
    /\ \A i \in 1..Len(t) : t[i] \in 0..64
    /\ \A i \in 1..Len(t) : t[i] = 64 =>
            /\ i >= Len(t) - 1
            /\ i = Len(t) - 1 => t[Len(t)] = 64

\* C17: the write of SetSecret / SetEnvironmentSecret is preceded, in the
\* same call, by one successful public-key fetch for the scope the call is
\* for ((owner, repo), with the environment for environment secrets), it
\* addresses that scope, and it submits the KeyID that fetch returned and
\* the base64 text of the encryptor's output for the key that fetch returned.
C17_FreshKeyPerWrite ==
    opName \in {"SetSecret", "SetEnvironmentSecret"} =>
        LET fetchEp == IF opName = "SetSecret" THEN "GetRepoPublicKey"
                       ELSE "GetEnvPublicKey"
            writeEp == IF opName = "SetSecret" THEN "CreateOrUpdateRepoSecret"
                       ELSE "CreateOrUpdateEnvSecret"
            env == IF opName = "SetSecret" THEN "" ELSE "prod"
            writes == {j \in 1..Len(opReq) : opReq[j].hasBody}
            fetches == {i \in 1..Len(opReq) : opReq[i].endpoint \in KeyEndpoints}
            key == CopyInto(KeySize, KeyBytes(opArgs.in.keyLen))
            kp == GenerateKey(opArgs.in.seed)
            sealed == boxSeal(opArgs.value, Blake2b(NonceSize, kp.pub \o key), key, kp.priv)
        IN  /\ Len(opReq) = Len(opRes.api)
            /\ Cardinality(writes) <= 1
            /\ Cardinality(fetches) <= 1
            /\ opRes.wrote <=> writes # {}
            /\ \A i \in fetches :
                    /\ opReq[i].endpoint = fetchEp
                    /\ opReq[i].owner = opArgs.owner /\ opReq[i].repo = opArgs.repo
                    /\ opReq[i].environment = env /\ env = opArgs.environment
            /\ \A j \in writes :
                    /\ opReq[j].endpoint = writeEp
                    /\ opReq[j].owner = opArgs.owner /\ opReq[j].repo = opArgs.repo
                    /\ opReq[j].environment = env
                    /\ \E i \in fetches : i < j /\ opRes.resps[i] = "ok"
                    /\ opReq[j].body.Name = opArgs.name
                    /\ opReq[j].body.KeyID = opArgs.keyId
                    /\ IsBase64(opReq[j].body.EncryptedValue)
                    /\ DecodeFrom(opReq[j].body.EncryptedValue, 1) = kp.pub \o sealed

C17_Witness ==
    /\ opName = "SetEnvironmentSecret"
    /\ opRes.err = NilErr /\ opRes.wrote
    /\ opArgs.keyId = "key-2" /\ opArgs.value = SecretValue
    /\ opArgs.in.keyLen = KeySize
    /\ opRes.api = <<"Repositories.Get", "GetEnvPublicKey", "Repositories.Get",
                     "CreateOrUpdateEnvSecret">>
    /\ opReq[4].body.KeyID = "key-2"
    /\ Len(opReq[4].body.EncryptedValue) = 68

\* C18 (as claimed): when the remote answers 404 for the repository, the
\* repository public-key fetch fails with RepositoryNotFoundError carrying
\* (owner, repo); the environment public-key fetch fails with
\* EnvironmentNotFoundError carrying (owner, repo, environment) when the
\* repository is found and the remote answers 404 for the environment.
C18_KeyFetchNotFound ==
    /\ (opName = "GetPublicKey" /\ opArgs.in.pk = "e404") =>
            /\ opRes.err.type = "RepositoryNotFoundError"
            /\ opRes.err.Owner = opArgs.owner /\ opRes.err.Repo = opArgs.repo
    /\ (opName = "GetEnvironmentPublicKey" /\ opArgs.in.id1 = "ok"
            /\ opArgs.in.pk = "e404") =>
            /\ opRes.err.type = "EnvironmentNotFoundError"
            /\ opRes.err.Owner = opArgs.owner /\ opRes.err.Repo = opArgs.repo
            /\ opRes.err.Environment = opArgs.environment

\* C19: handleGitHubError maps an API error with status 404 to
\* EnvironmentNotFoundError{owner, repo, environment} when environment is not
\* empty and to RepositoryNotFoundError{owner, repo} when it is, whatever
\* the resource type and the name; nil maps to nil; an error that is not an
\* API error response is returned as it is.
C19_NotFoundMapping ==
    opName = "handleGitHubError" =>
        /\ opArgs.err = "ok" => opRes.err = NilErr
        /\ opArgs.err = "ctx" => opRes.err = RawErr("ctx")
        /\ (opArgs.err = "e404" /\ opArgs.environment # "") =>
                opRes.err = [NilErr EXCEPT !.type = "EnvironmentNotFoundError",
                                           !.Owner = opArgs.owner,
                                           !.Repo = opArgs.repo,
                                           !.Environment = opArgs.environment]
        /\ (opArgs.err = "e404" /\ opArgs.environment = "") =>
                opRes.err = [NilErr EXCEPT !.type = "RepositoryNotFoundError",
                                           !.Owner = opArgs.owner,
                                           !.Repo = opArgs.repo]

C19_Witness ==
    /\ opName = "handleGitHubError"
    /\ opArgs.err = "e404" /\ opArgs.environment = "prod"
    /\ opArgs.resourceType = "repository_variable" /\ opArgs.name = "A"
    /\ opRes.err.type = "EnvironmentNotFoundError"

\* C20: handleGitHubError wraps an API error that is not a 404 as SecretError
\* for the resource types repository_secret and environment_secret and as
\* VariableError for repository_variable and environment_variable, with
\* Type, Owner, Repo, Environment and Name the arguments and Unwrap() the
\* original error; for another resource type it returns the error as it is.
C20_WrapByResourceType ==
    (opName = "handleGitHubError" /\ opArgs.err \in {"e500", "eNoResp"}) =>
        LET wrapped == [type |-> opRes.err.type, msg |-> "", Owner |-> opArgs.owner,
                        Repo |-> opArgs.repo, Environment |-> opArgs.environment,
                        Type |-> opArgs.resourceType, Name |-> opArgs.name,
                        Err |-> opArgs.err]
        IN  /\ opArgs.resourceType \in {"repository_secret", "environment_secret"} =>
                    /\ opRes.err.type = "SecretError"
                    /\ opRes.err = wrapped
                    /\ Unwrap(opRes.err) = RawErr(opArgs.err)
            /\ opArgs.resourceType \in {"repository_variable", "environment_variable"} =>
                    /\ opRes.err.type = "VariableError"
                    /\ opRes.err = wrapped
                    /\ Unwrap(opRes.err) = RawErr(opArgs.err)
            /\ opArgs.resourceType \in {"", "deployment"} =>
                    opRes.err = RawErr(opArgs.err)

C20_Witness ==
    /\ opName = "handleGitHubError"
    /\ opArgs.err = "e500" /\ opArgs.resourceType = "environment_variable"
    /\ opArgs.environment = "prod" /\ opArgs.name = "A" /\ opArgs.repo = "repo2"
    /\ opRes.err.type = "VariableError" /\ opRes.err.Repo = "repo2"
    /\ Unwrap(opRes.err) = RawErr("e500")

Last(seq) == seq[Len(seq)]

\* the recorded error of a unit whose encryption failed
EncryptFailure(e) == e.cause.msg = "failed to encrypt secret"

\* the last unit goroutine w logged failed at the encryption
FailedAtEncryption(w) ==
    /\ trace[w] # <<>> /\ Last(trace[w]).res = "failed"
    /\ repoErrors[w] # <<>> /\ EncryptFailure(Last(repoErrors[w]))

\* C21: when key generation fails, encryptSecret returns an error and no
\* output bytes; the set operation that called it fails without a write
\* call; the unit is reported as failed, and the goroutine goes on with the
\* next unit unless the context is cancelled.
C21_EncryptionFailure ==
    /\ [](/\ opName = "encryptSecret" =>
               /\ opArgs.seed = 0 <=> opRes.err # "nil"
               /\ opRes.err # "nil" => opRes.out = <<>>
          /\ opName \in {"SetSecret", "SetEnvironmentSecret"} =>
               /\ (opRes.keyGen /\ opArgs.in.seed = 0) <=>
                      opRes.err.msg = "failed to encrypt secret"
               /\ opRes.err.msg = "failed to encrypt secret" =>
                      /\ ~opRes.wrote
                      /\ \A i \in 1..Len(opRes.api) : opRes.api[i] \notin WriteEndpoints
                      /\ \A i \in 1..Len(opReq) : ~opReq[i].hasBody)
    /\ [][\A w \in Workers :
            /\ (repoErrors'[w] # repoErrors[w] /\ EncryptFailure(Last(repoErrors'[w]))) =>
                  /\ \A e \in WriteEndpoints : calls'[e] = calls[e]
                  /\ calls'["encryptSecret"] = calls["encryptSecret"] + 1
                  /\ Last(trace'[w]).res = "failed"
                  /\ Last(trace'[w]).unit.kind = Last(repoErrors'[w]).kind
                  /\ Last(trace'[w]).unit.name = Last(repoErrors'[w]).name
                  /\ ctxCancelled' = ctxCancelled
                  /\ pc'[w] = "loop"
            /\ (/\ pc[w] = "loop" /\ pc'[w] # "loop"
                /\ FailedAtEncryption(w)
                /\ ~ctxCancelled /\ NextUnits(w) # {}) =>
                  /\ pc'[w] = "call"
                  /\ cur'[w] \in NextUnits(w)]_vars

C21_Witness ==
    \E w \in Workers :
        /\ Len(trace[w]) = 2
        /\ trace[w][1].res = "failed" /\ trace[w][2].res = "ok"
        /\ Len(repoErrors[w]) = 1 /\ EncryptFailure(repoErrors[w][1])
        /\ calls["encryptSecret"] = 2
        /\ calls["CreateOrUpdateRepoSecret"] + calls["CreateOrUpdateEnvSecret"] = 1

\* the entries of a section of environments: (environment, key) pairs
EnvEntries(sec) == UNION {{<<e, k>> : k \in DOMAIN sec[e]} : e \in DOMAIN sec}

\* the rules of a valid configuration, as the claim lists them
WellFormed(c) ==
    /\ c.GitHub.Owner # ""
    /\ c.GitHub.Repos # <<>>
    /\ c.GitHub.Token # ""
    /\ \/ DOMAIN c.RepositorySecrets # {}
       \/ DOMAIN c.EnvironmentSecrets # {}
       \/ DOMAIN c.RepositoryVariables # {}
       \/ DOMAIN c.EnvironmentVariables # {}
    /\ "" \notin Range(c.GitHub.Repos)
    /\ "" \notin DOMAIN c.EnvironmentSecrets \cup DOMAIN c.EnvironmentVariables
    /\ \A k \in DOMAIN c.RepositorySecrets : k # "" /\ c.RepositorySecrets[k] # <<>>
    /\ \A k \in DOMAIN c.RepositoryVariables : k # "" /\ c.RepositoryVariables[k] # <<>>
    /\ \A p \in EnvEntries(c.EnvironmentSecrets) :
            p[2] # "" /\ c.EnvironmentSecrets[p[1]][p[2]] # <<>>
    /\ \A p \in EnvEntries(c.EnvironmentVariables) :
            p[2] # "" /\ c.EnvironmentVariables[p[1]][p[2]] # <<>>

\* the rule the error message msg names is violated by c
RuleViolated(msg, c) ==
    CASE msg = "github.owner is required" -> c.GitHub.Owner = ""
      [] msg = "at least one repository must be specified in github.repos" ->
            c.GitHub.Repos = <<>>
      [] msg = "github.token is required" -> c.GitHub.Token = ""
      [] msg = "at least one section must be specified" ->
            DOMAIN c.RepositorySecrets \cup DOMAIN c.EnvironmentSecrets
                \cup DOMAIN c.RepositoryVariables \cup DOMAIN c.EnvironmentVariables = {}
      [] msg = "repository name cannot be empty" -> "" \in Range(c.GitHub.Repos)
      [] msg = "repository secret key cannot be empty" -> "" \in DOMAIN c.RepositorySecrets
      [] msg = "repository secret value cannot be empty" ->
            <<>> \in {c.RepositorySecrets[k] : k \in DOMAIN c.RepositorySecrets}
      [] msg = "environment name cannot be empty" ->
            "" \in DOMAIN c.EnvironmentSecrets \cup DOMAIN c.EnvironmentVariables
      [] msg = "environment secret key cannot be empty" ->
            \E p \in EnvEntries(c.EnvironmentSecrets) : p[2] = ""
      [] msg = "environment secret value cannot be empty" ->
            \E p \in EnvEntries(c.EnvironmentSecrets) :
                c.EnvironmentSecrets[p[1]][p[2]] = <<>>
      [] msg = "repository variable key cannot be empty" ->
            "" \in DOMAIN c.RepositoryVariables
      [] msg = "repository variable value cannot be empty" ->
            <<>> \in {c.RepositoryVariables[k] : k \in DOMAIN c.RepositoryVariables}
      [] msg = "environment variable key cannot be empty" ->
            \E p \in EnvEntries(c.EnvironmentVariables) : p[2] = ""
      [] msg = "environment variable value cannot be empty" ->
            \E p \in EnvEntries(c.EnvironmentVariables) :
                c.EnvironmentVariables[p[1]][p[2]] = <<>>
      [] OTHER -> FALSE

\* C22: Validate returns nil exactly for the configurations with an owner,
\* a token, at least one repository, at least one non-empty section, and no
\* empty repository name, environment name, key or value; otherwise its
\* error names a rule the configuration violates.
C22_ValidateIffWellFormed ==
    opName = "Validate" =>
        /\ opRes.err = "nil" <=> WellFormed(opArgs.c)
        /\ opRes.err # "nil" => RuleViolated(opRes.err, opArgs.c)

C22_Witness ==
    /\ opName = "Validate"
    /\ opRes.err = "environment variable value cannot be empty"
    /\ opArgs.c.GitHub = [Token |-> "token", Owner |-> "org", Repos |-> <<"repo1">>]
    /\ DOMAIN opArgs.c.RepositorySecrets = {"A"}

\* the configuration of the file with the token of the environment taken
\* when the file has none
FileWithToken(in) ==
    [in.ConfigPath.c EXCEPT !.GitHub.Token = IF @ = "" THEN in.EnvToken ELSE @]

\* the invocation has a configuration error: the file cannot be read or
\* decoded, or what it holds is not a valid configuration
ConfigError(in) ==
    \/ in.ConfigPath.read # "ok"
    \/ ~WellFormed(FileWithToken(in))
    \/ ~WellFormed(ApplyOverrides(FileWithToken(in), in.Token, in.Owner,
                                  ParseRepos(in.Repos).repos))

\* C23: when loading or validating the configuration fails, the run aborts
\* with that error before dispatch: no goroutine is started and no remote
\* call (probe, key fetch, write) is issued.
C23_ConfigErrorBeforeDispatch ==
    opName = "run" =>
        /\ (ConfigError(opArgs) /\ ~opArgs.ShowVersion) =>
              /\ phase \in {"load", "aborted"}
              /\ pc = <<>> /\ trace = <<>>
              /\ \A e \in Counted : calls[e] = 0
        /\ phase = "aborted" =>
              /\ ConfigError(opArgs)
              /\ retErr.failed /\ opRes.err # "nil"
              /\ opArgs.ConfigPath.read = "missing" <=>
                     opRes.err = "failed to read config file"
              /\ opArgs.ConfigPath.read = "malformed" <=> opRes.err = "failed to parse YAML"
              /\ opArgs.ConfigPath.read = "ok" =>
                     RuleViolated(opRes.cause, FileWithToken(opArgs))
        /\ phase \in {"load", "loaded", "aborted", "version"} =>
              /\ pc = <<>>
              /\ \A e \in Counted : calls[e] = 0

C23_Witness ==
    /\ opName = "run" /\ phase = "aborted"
    /\ opArgs.ConfigPath.read = "ok"
    /\ opArgs.ConfigPath.c.GitHub.Owner = "" /\ opArgs.Owner = "org2"
    /\ opRes.err = "config validation failed"
    /\ pc = <<>>

\* C24: ApplyOverrides replaces token, owner and repo list by each argument
\* that is not empty, leaves a field as it is when its argument is empty,
\* and never changes one of the four sections.
C24_ApplyOverrides ==
    opName = "ApplyOverrides" =>
        LET before == opArgs.c
            after == opRes.c
        IN  /\ after.GitHub.Token =
                  IF opArgs.token = "" THEN before.GitHub.Token ELSE opArgs.token
            /\ after.GitHub.Owner =
                  IF opArgs.owner = "" THEN before.GitHub.Owner ELSE opArgs.owner
            /\ after.GitHub.Repos =
                  IF opArgs.repos = <<>> THEN before.GitHub.Repos ELSE opArgs.repos
            /\ after.RepositorySecrets = before.RepositorySecrets
            /\ after.EnvironmentSecrets = before.EnvironmentSecrets
            /\ after.RepositoryVariables = before.RepositoryVariables
            /\ after.EnvironmentVariables = before.EnvironmentVariables

C24_Witness ==
    /\ opName = "ApplyOverrides"
    /\ opArgs.token = "" /\ opArgs.owner = "new-owner" /\ opArgs.repos = <<"repo3", "repo1">>
    /\ opRes.c.GitHub = [Token |-> "token", Owner |-> "new-owner",
                         Repos |-> <<"repo3", "repo1">>]
    /\ DOMAIN opRes.c.EnvironmentVariables = {"prod"}

\* the items of a text by position: an item starts after position a (0 or
\* a comma) and ends before the next comma or the end of the text
ItemEnd(s, a) ==
    LET ends == {b \in (a + 1)..(Len(s) + 1) : b = Len(s) + 1 \/ s[b] = ","}
    IN  CHOOSE b \in ends : \A c \in ends : b <= c

\* the positions of the item after a that hold no whitespace
Solid(s, a) == {i \in (a + 1)..(ItemEnd(s, a) - 1) : s[i] \notin WhiteSpace}

\* the items of s with a character that is no whitespace, cut at the first
\* and the last such character, in the order of the text
ExpectedItems(s) ==
    LET starts == {a \in 0..Len(s) : (a = 0 \/ s[a] = ",") /\ Solid(s, a) # {}}
    IN  [k \in 1..Cardinality(starts) |->
            LET a == Nth(starts, k)
                lo == CHOOSE i \in Solid(s, a) : \A j \in Solid(s, a) : i <= j
                hi == CHOOSE i \in Solid(s, a) : \A j \in Solid(s, a) : i >= j
            IN  SubSeq(s, lo, hi)]

\* C25: ParseRepos returns nil for the empty text; otherwise the items
\* between the commas in their order, each without the whitespace around
\* it, the empty ones dropped: no name of the result is empty or begins or
\* ends with whitespace.
C25_ParseRepos ==
    opName = "ParseRepos" =>
        LET s == opArgs.reposStr
            items == ExpectedItems(s)
        IN  /\ s = <<>> => (opRes.isNil /\ opRes.repos = <<>>)
            /\ Len(opRes.repos) = Len(items)
            /\ \A k \in 1..Len(items) :
                  /\ opRes.repos[k] = Join(items[k])
                  /\ opRes.repos[k] # ""
                  /\ items[k][1] \notin WhiteSpace
                  /\ items[k][Len(items[k])] \notin WhiteSpace

C25_Witness ==
    /\ opName = "ParseRepos"
    /\ opArgs.reposStr = <<" ", "repo1", ",", "repo2">>
    /\ opRes.repos = <<"repo1", "repo2">>

\* C26 (as claimed): when the file and GH_TOKEN_WITH_ACTIONS_WRITE both
\* hold a token, the configuration loaded has the token of the environment;
\* when the file has none, it has the token of the environment too.
C26_TokenPrecedence ==
    (opName = "LoadConfig" /\ opRes.err = "nil") =>
        opRes.cfg.GitHub.Token =
            IF opArgs.envToken # "" THEN opArgs.envToken
            ELSE opArgs.file.c.GitHub.Token

\* the store holds the catalog's value for every unit of every repository
StoreHoldsCatalog ==
    \A w \in Workers : \A u \in Units(cfg) :
        [key |-> StoreKey(w, u), value |-> UnitValue(cfg, u)] \in store

\* C27 (as claimed): in consecutive runs of the same catalog against the
\* same targets, with a remote that does not fail, every unit of every run
\* succeeds, no unit meets an already-exists error, and after each run the
\* store holds the catalog's value for each name.
C27_Idempotent ==
    ~flags.DryRun =>
        /\ \A w \in Workers :
              /\ \A i \in 1..Len(trace[w]) : trace[w][i].res = "ok"
              /\ \A k \in 1..Len(repoErrors[w]) : repoErrors[w][k].cause.Err # "e409"
        /\ phase = "completed" => (~retErr.failed /\ StoreHoldsCatalog)

\* C28: while the context is not cancelled, a failed unit ends only that
\* unit: its error is recorded, and the goroutine takes up the next name
\* or the next scope of the same repository; it leaves the loops only when
\* no unit remains or the context is cancelled.
C28_FailureIsolation ==
    [][\A w \in Workers :
        /\ (phase = "running" /\ Len(repoErrors'[w]) > Len(repoErrors[w])) =>
              /\ repoErrors'[w] = Append(repoErrors[w], Last(repoErrors'[w]))
              /\ Last(repoErrors'[w]).repo = cfg.GitHub.Repos[w]
              /\ Last(repoErrors'[w]).kind = cur[w].kind
              /\ Last(repoErrors'[w]).env = cur[w].env
              /\ Last(repoErrors'[w]).name = cur[w].name
              /\ Len(trace'[w]) = Len(trace[w]) + 1
              /\ Last(trace'[w]).unit = cur[w] /\ Last(trace'[w]).res = "failed"
              /\ pc'[w] = "loop"
              /\ ctxCancelled' = ctxCancelled
              /\ \A v \in Workers \ {w} :
                    pc'[v] = pc[v] /\ cur'[v] = cur[v] /\ trace'[v] = trace[v]
        /\ (phase = "running" /\ pc[w] = "loop" /\ pc'[w] # "loop") =>
              IF ~ctxCancelled /\ NextUnits(w) # {}
              THEN pc'[w] = "call" /\ cur'[w] \in NextUnits(w)
              ELSE pc'[w] \in {"lock", "done"}]_vars

C28_Witness ==
    /\ ~flags.ContinueOnError /\ ~ctxCancelled /\ phase = "running"
    /\ \E w \in Workers :
        /\ Len(trace[w]) = 2
        /\ trace[w][1].res = "failed" /\ trace[w][1].unit.kind = "repository_secret"
        /\ trace[w][2].res = "ok" /\ trace[w][2].unit.kind = "environment_secret"
        /\ Len(repoErrors[w]) = 1

\* C29: the run is completed, and the collected errors are read and
\* reported, only when every goroutine has returned; after that no error is
\* appended and no remote call is issued.
C29_ReportAfterAllReturned ==
    /\ [](phase = "completed" =>
            /\ \A w \in Workers : pc[w] = "done" /\ cur[w] = NoUnit
            /\ errorMutex = 0
            /\ retErr.count = Len(errors)
            /\ Len(errors) = TotalRepoErrors)
    /\ [][/\ phase' = "completed" /\ phase = "running" =>
               /\ \A w \in Workers : pc[w] = "done"
               /\ errors' = errors
          /\ phase = "completed" =>
               /\ errors' = errors /\ calls' = calls
               /\ trace' = trace /\ retErr' = retErr]_vars

C29_Witness ==
    /\ phase = "completed"
    /\ Len(cfg.GitHub.Repos) = 2
    /\ \A w \in Workers : Len(repoErrors[w]) = 1 /\ pc[w] = "done"
    /\ retErr = [failed |-> TRUE, count |-> 2]

\* C30: when every remote call returns and the goroutines are scheduled
\* fairly, every run is completed in the end, whatever the targets, the
\* catalog, the failures and the flags: no state is reached in which a
\* goroutine waits for ever.
C30_Termination == <>(phase = "completed")

C30_Witness ==
    /\ phase = "completed"
    /\ flags.ContinueOnError /\ ~flags.DryRun
    /\ Len(cfg.GitHub.Repos) = 2
    /\ retErr.failed
    /\ \E w \in Workers : Len(trace[w]) = 2 /\ repoErrors[w] = <<>>

\* the place of a scope in the order of the claim: repository secrets,
\* environment secrets, repository variables, environment variables
ScopeRank(kind) ==
    CASE kind = "repository_secret" -> 1
      [] kind = "environment_secret" -> 2
      [] kind = "repository_variable" -> 3
      [] kind = "environment_variable" -> 4

\* positions in w's log of the lines of unit u
LoggedAt(w, u) == {i \in 1..Len(trace[w]) : trace[w][i].unit = u}

\* C31: within one target the units are processed in scope order: when a
\* goroutine has taken up a unit, every unit of the catalog of an earlier
\* scope has finished before, and the log of a goroutine never goes back
\* to an earlier scope.
C31_ScopeOrder ==
    \A w \in Workers :
        /\ \A i \in 1..Len(trace[w]) : \A j \in 1..Len(trace[w]) :
              i < j => ScopeRank(trace[w][i].unit.kind) <= ScopeRank(trace[w][j].unit.kind)
        /\ \A j \in 1..Len(trace[w]) : \A u \in Units(cfg) :
              ScopeRank(u.kind) < ScopeRank(trace[w][j].unit.kind) =>
                  \E i \in LoggedAt(w, u) : i < j
        /\ pc[w] = "call" =>
              \A u \in Units(cfg) :
                  ScopeRank(u.kind) < ScopeRank(cur[w].kind) => LoggedAt(w, u) # {}

\* a goroutine went through the four scopes, one unit each
C31_Witness ==
    /\ \E w \in Workers :
        /\ Len(trace[w]) = 4
        /\ \A k \in 1..4 : ScopeRank(trace[w][k].unit.kind) = k
    /\ phase = "completed"

C33_InFlightCallsComplete ==
    /\ [](\A w \in Workers : \A k \in 1..Len(repoErrors[w]) :
            ~IsCtxError(repoErrors[w][k]))
    /\ [][(phase = "running" /\ ctxCancelled) =>
            \A w \in Workers :
                (pc[w] = "loop" /\ pc'[w] # "loop") => pc'[w] \in {"lock", "done"}]_vars

\* goroutines that have appended their errors to the shared slice
Appended == {w \in Workers : pc[w] \in {"cancel", "done"} /\ repoErrors[w] # <<>>}

\* how often x occurs in the error lists of the goroutines of S
CountIn2(S, x) ==
    SumWorkers([w \in Workers |-> IF w \in S THEN CountSeq(repoErrors[w], x) ELSE 0])

\* C34: the shared errors are changed only by the goroutine that holds
\* errorMutex, at most one goroutine is between Lock and Unlock, and the
\* shared errors are at any time the union (as multisets) of the error lists
\* of the goroutines that have appended, at the end of all goroutines.
C34_MutualExclusion ==
    /\ [](/\ Cardinality({w \in Workers : pc[w] = "append"}) <= 1
          /\ \A w \in Workers : pc[w] = "append" <=> errorMutex = w
          /\ \A x \in Range(errors) \cup UNION {Range(repoErrors[w]) : w \in Workers} :
                CountSeq(errors, x) = CountIn2(Appended, x)
          /\ phase = "completed" =>
                /\ Appended = {w \in Workers : repoErrors[w] # <<>>}
                /\ Len(errors) = TotalRepoErrors)
    /\ [][errors' # errors =>
            \E w \in Workers :
                /\ errorMutex = w /\ pc[w] = "append"
                /\ errors' = errors \o repoErrors[w]
                /\ errorMutex' = 0]_vars

\* one goroutine is between Lock and Unlock while another waits at Lock
C34_Witness ==
    \E v \in Workers : \E w \in Workers :
        /\ pc[v] = "append" /\ errorMutex = v
        /\ pc[w] = "lock" /\ repoErrors[w] # <<>>

\* the probes of goroutine w that failed, by the lines it logged
WouldCreate(w) == {i \in 1..Len(trace[w]) : trace[w][i].res = "would_create"}

\* C35: a dry run never records an error and never requests cancellation:
\* whatever the probes answer, the goroutines collect no error and never
\* reach the lock or cancel(), every line is a preview, every unit of the
\* catalog is previewed and the run ends with success.
C35_DryRunNeverFails ==
    flags.DryRun =>
        /\ errors = <<>>
        /\ \A w \in Workers :
              /\ repoErrors[w] = <<>>
              /\ pc[w] \notin {"lock", "append", "cancel"}
              /\ \A i \in 1..Len(trace[w]) :
                    trace[w][i].res \in {"would_create", "would_update"}
        /\ phase = "running" => ~ctxCancelled
        /\ phase = "completed" =>
              /\ retErr = [failed |-> FALSE, count |-> 0]
              /\ \A w \in Workers : Len(trace[w]) = Cardinality(Units(cfg))

\* a completed dry run of two repositories in which every probe failed
C35_Witness ==
    /\ flags.DryRun /\ phase = "completed" /\ ~retErr.failed
    /\ Len(cfg.GitHub.Repos) = 2
    /\ \A w \in Workers : Len(trace[w]) = 2 /\ Cardinality(WouldCreate(w)) = 2
    /\ \E e \in ProbeEndpoints : calls[e] >= 2

\* goroutine w is inside processRepository
Iterating(w) == pc[w] \in {"loop", "call"}

\* goroutines that have called cancel()
Cancellers ==
    {v \in Workers : pc[v] = "done" /\ repoErrors[v] # <<>> /\ ~flags.ContinueOnError}

Merged(in) ==
    ApplyOverrides(FileWithToken(in), in.Token, in.Owner, ParseRepos(in.Repos).repos)

\* C37 (as claimed): when the file is readable and the configuration is valid
\* once the flags are applied (a gap of the file in owner, repos or token is
\* filled by --owner, --repo or --token), the run is not aborted and
\* proceeds with the flags' values.
C37_OverridesFillGaps ==
    (/\ opName = "run" /\ ~opArgs.ShowVersion
     /\ opArgs.ConfigPath.read = "ok"
     /\ WellFormed(Merged(opArgs))) =>
        /\ phase # "aborted"
        /\ phase \in {"running", "completed"} => cfg = Merged(opArgs)

C39_MaskLeaksBoundedView ==
    opName = "maskSecret" =>
        LET t == opArgs.text
            n == Len(t)
        IN  /\ Len(opRes.out) \in {4, 8}
            /\ \A t2 \in SecretTexts :
                  LET m == Len(t2)
                  IN  /\ (n <= 4 /\ m <= 4) => maskSecret(Utf8(t2)) = opRes.out
                      /\ (/\ n > 4 /\ m > 4
                          /\ SubSeq(t, 1, 2) = SubSeq(t2, 1, 2)
                          /\ SubSeq(t, n - 1, n) = SubSeq(t2, m - 1, m)) =>
                            maskSecret(Utf8(t2)) = opRes.out

====
